---------------------------- MODULE Spec2Model ----------------------------
(***************************************************************************)
(* Model of the Telegram direct-streaming core of CT-desk                  *)
(* (src/main/security/validators.js, lines 128-869): the LRU chunk cache,  *)
(* the in-flight registry and chunk fetcher, the session pool, the         *)
(* per-stream prefetch engine and the loopback range server.               *)
(*                                                                         *)
(* Strings the code takes apart (cache keys, stream ids) are tuples of     *)
(* one-character strings; a Buffer is a tuple of byte values; null is the  *)
(* value Null.                                                             *)
(***************************************************************************)
EXTENDS Integers, Sequences, FiniteSets, TLC

VARIABLES
    chunkCache,     \* the ChunkCache object: [maxBytes, usedBytes, map]
    lastOp,         \* history: the last cache operation, its result and the cache before it
    clientPool,     \* the session pool: a tuple of clients [connected, kind]
    sessionFile,    \* the persisted credential: "none", "valid" or "stale"
    ensureTask,     \* each ensureClientPool call: [pc, master, pending]
    authCount,      \* history: authentication exchanges issued (client.start)
    floodCount,     \* history: rate-limit replies to an authentication
    faults,         \* history: transport failures injected
    activeStreams,  \* videoId -> registration [fileSize, downloader], or NoStream
    engines,        \* every StreamDownloader object created, in creation order
    workers,        \* per engine, its _worker tasks: [pc, gen, call]
    inFlight,       \* the in-flight registry: cacheKey -> promise (a fetch id)
    fetches,        \* the _downloadChunkImpl invocations still referenced, by id
    responses,      \* the HTTP request handlers
    starts,         \* the startTelegramStream calls
    stopped,        \* history: videoId -> stopStream returned and no start since
    downloadFaults, \* history: download attempts that failed
    shutdown        \* the destroy() call: [pc, i], i the client being disconnected

cacheVars == <<chunkCache, lastOp>>
poolVars == <<clientPool, sessionFile, ensureTask, authCount, floodCount, faults>>
streamVars == <<activeStreams, engines, workers, inFlight, fetches, responses,
                starts, stopped, downloadFaults, shutdown>>
vars == <<cacheVars, poolVars, streamVars>>

---------------------------------------------------------------------------
(* Values *)

Null == <<-1>>

IsNull(b) == b = Null

Min(a, b) == IF a < b THEN a ELSE b

Max(a, b) == IF a > b THEN a ELSE b

\* the set {f[i] : i in 1..Len(f)}
Range(f) == {f[i] : i \in 1..Len(f)}

\* a tuple without the elements that fail Keep, order kept
RECURSIVE SelectEntries(_, _)
SelectEntries(seq, keep) ==
    IF seq = <<>> THEN <<>>
    ELSE IF Head(seq).key \in keep
         THEN <<Head(seq)>> \o SelectEntries(Tail(seq), keep)
         ELSE SelectEntries(Tail(seq), keep)

\* decimal digits of a chunk index, as JS string concatenation renders a number
DigitChar(d) ==
    CASE d = 0 -> "0" [] d = 1 -> "1" [] d = 2 -> "2" [] d = 3 -> "3"
      [] d = 4 -> "4" [] d = 5 -> "5" [] d = 6 -> "6" [] d = 7 -> "7"
      [] d = 8 -> "8" [] d = 9 -> "9"

RECURSIVE ToDigits(_)
ToDigits(n) ==
    IF n < 10 THEN <<DigitChar(n)>>
    ELSE ToDigits(n \div 10) \o <<DigitChar(n % 10)>>

\* a number in a string concatenation
NumberToString(n) == IF n < 0 THEN <<"-">> \o ToDigits(-n) ELSE ToDigits(n)

\* cacheKey = videoId + ':' + chunkIndex
CacheKey(videoId, chunkIndex) == videoId \o <<":">> \o ToDigits(chunkIndex)

\* String.prototype.startsWith
StartsWith(str, prefix) ==
    /\ Len(prefix) <= Len(str)
    /\ SubSeq(str, 1, Len(prefix)) = prefix

---------------------------------------------------------------------------
(* ChunkCache: a JS Map keeps insertion order, so map is a tuple of        *)
(* [key, buf] entries, oldest first.                                       *)

RECURSIVE SumBytes(_)
SumBytes(map) ==
    IF map = <<>> THEN 0 ELSE Len(Head(map).buf) + SumBytes(Tail(map))

MapKeys(map) == {map[i].key : i \in 1..Len(map)}

MapHas(map, key) == key \in MapKeys(map)

MapGet(map, key) ==
    LET i == CHOOSE i \in 1..Len(map) : map[i].key = key IN map[i].buf

MapDelete(map, key) == SelectEntries(map, MapKeys(map) \ {key})

NewChunkCache(maxBytes) == [maxBytes |-> maxBytes, usedBytes |-> 0, map |-> <<>>]

\* get(key): the value returned
CacheGetResult(c, key) ==
    IF MapHas(c.map, key) THEN MapGet(c.map, key) ELSE Null

\* a get that forgets to re-insert the hit as newest
CacheGetNoPromote(c, key) == c

\* get(key): the cache afterwards (a hit is deleted and re-inserted as newest)
CacheGet(c, key) ==
    IF MapHas(c.map, key)
    THEN [c EXCEPT !.map = Append(MapDelete(c.map, key),
                                  [key |-> key, buf |-> MapGet(c.map, key)])]
    ELSE c

\* the eviction loop of set: drop the oldest entry while the new one does not fit
RECURSIVE EvictOldest(_, _)
EvictOldest(c, len) ==
    IF c.usedBytes + len > c.maxBytes /\ Len(c.map) > 0
    THEN EvictOldest([c EXCEPT !.usedBytes = @ - Len(Head(c.map).buf),
                               !.map = Tail(c.map)], len)
    ELSE c

\* a set that drops the prior entry of the key without reclaiming its size
CacheSetNoReclaim(c, key, buf) ==
    LET c1 == [c EXCEPT !.map = MapDelete(c.map, key)]
        c2 == EvictOldest(c1, Len(buf))
    IN  [c2 EXCEPT !.map = Append(c2.map, [key |-> key, buf |-> buf]),
                   !.usedBytes = @ + Len(buf)]

\* set(key, buf)
CacheSet(c, key, buf) ==
    LET c1 == IF MapHas(c.map, key)
              THEN [c EXCEPT !.usedBytes = @ - Len(MapGet(c.map, key)),
                             !.map = MapDelete(c.map, key)]
              ELSE c
        c2 == EvictOldest(c1, Len(buf))
    IN  [c2 EXCEPT !.map = Append(c2.map, [key |-> key, buf |-> buf]),
                   !.usedBytes = @ + Len(buf)]

\* has(key)
CacheHas(c, key) == MapHas(c.map, key)

\* a has that promotes the key it finds, as get does
CacheAfterHasPromoting(c, key) == CacheGet(c, key)

\* has(key): the cache afterwards (this.map.has reads the map and writes nothing)
CacheAfterHas(c, key) == c

\* clear()
CacheClear(c) == [c EXCEPT !.map = <<>>, !.usedBytes = 0]

\* deletePrefix(prefix)
RECURSIVE DeletePrefixLoop(_, _, _)
DeletePrefixLoop(c, keys, prefix) ==
    IF keys = <<>> THEN c
    ELSE LET key == Head(keys) IN
         IF StartsWith(key, prefix)
         THEN DeletePrefixLoop([c EXCEPT !.usedBytes = @ - Len(MapGet(c.map, key)),
                                         !.map = MapDelete(c.map, key)],
                               Tail(keys), prefix)
         ELSE DeletePrefixLoop(c, Tail(keys), prefix)

CacheDeletePrefix(c, prefix) ==
    DeletePrefixLoop(c, [i \in 1..Len(c.map) |-> c.map[i].key], prefix)

---------------------------------------------------------------------------
(* Bounds and inputs of the cache on its own: keys of three streams (the   *)
(* id is what the URL pattern /^\/stream\/([^/?]+)/ matches, so an id may   *)
(* hold a colon) and buffers of every length up to MaxBufLen (one more     *)
(* than the budget, so that an oversized insert happens).                  *)

CacheBudget == 3

MaxBufLen == 4

CacheChunks == 2

VideoIds == {<<"a">>, <<"b">>, <<"a", ":", "b">>}

CacheKeys == {CacheKey(v, i) : v \in VideoIds, i \in 0..(CacheChunks - 1)}

\* a buffer of the given length whose bytes name the key's chunk index and the length
BufOf(tag, len) == [p \in 1..len |-> tag * 10 + len]

CacheBufs == {BufOf(t, n) : t \in 0..1, n \in 1..MaxBufLen}

NoOp == [op |-> "none", key |-> <<>>, buf |-> <<>>, ret |-> Null, before |-> <<>>]

---------------------------------------------------------------------------
(* Session pool: ensureClientPool, one task per call; calls may overlap,   *)
(* as startTelegramStream awaits it first and is itself re-entrant.        *)

CLIENT_POOL_SIZE == 3

MaxCalls == 2

MaxFloods == 2

FLOOD_MARGIN == 5           \* err.seconds + 5

FLOOD_SLEEP == 30           \* Math.min(remaining, 30)

\* the retry-after durations (seconds) a FLOOD reply may carry: a countdown of
\* one sleep, of exactly one full sleep, of two and of three sleeps
FloodSeconds == {1, 25, 26, 56}

MaxFaults == 1

Client(kind) == [connected |-> TRUE, kind |-> kind]

IdleTask == [pc |-> "idle", master |-> "none", pending |-> 0]

\* clientPool.filter(c => c && c.connected).length
Alive(pool) == Cardinality({i \in 1..Len(pool) : pool[i].connected})

PoolUnused ==
    /\ clientPool = <<>>
    /\ sessionFile = "none"
    /\ ensureTask = <<>>
    /\ authCount = 0
    /\ floodCount = 0
    /\ faults = 0

CacheUnused ==
    /\ chunkCache = NewChunkCache(CacheBudget)
    /\ lastOp = NoOp

\* a countdown without the safety margin
FloodWaitNoMargin(seconds) == seconds

\* const waitSec = err.seconds + 5
FloodWait(seconds) == seconds + FLOOD_MARGIN

\* createClientWithSession(creds, ''): c.start issues auth.ImportBotAuthorization
StartAuth(t, pool) ==
    /\ ensureTask' = [ensureTask EXCEPT ![t] = [pc |-> "auth", master |-> "none", pending |-> 0]]
    /\ authCount' = authCount + 1
    /\ clientPool' = pool

\* the clone section up to await Promise.all: one connect-only client per free slot
StartClones(t, pool) ==
    /\ ensureTask' = [ensureTask EXCEPT ![t] =
                        [pc |-> "clones", master |-> "valid",
                         pending |-> Max(0, CLIENT_POOL_SIZE - Len(pool))]]
    /\ clientPool' = pool

\* ensureClientPool up to its first await
EnsureCall(t) ==
    /\ ensureTask[t].pc = "idle"
    /\ IF Alive(clientPool) >= CLIENT_POOL_SIZE
       THEN /\ ensureTask' = [ensureTask EXCEPT ![t].pc = "done"]
            /\ UNCHANGED <<clientPool, authCount>>
       ELSE IF sessionFile # "none"
       THEN /\ ensureTask' = [ensureTask EXCEPT ![t] =
                                [pc |-> "testConnect", master |-> sessionFile, pending |-> 0]]
            /\ UNCHANGED <<clientPool, authCount>>
       ELSE StartAuth(t, clientPool)
    /\ UNCHANGED <<sessionFile, floodCount, faults, cacheVars, streamVars>>

\* the catch of the saved-session test: masterSession = null; clientPool = [];
\* then the fresh authentication starts
SavedSessionInvalid(t) == StartAuth(t, <<>>)

\* await c.connect() of the saved-session test returns or throws
TestConnectDone(t) ==
    /\ ensureTask[t].pc = "testConnect"
    /\ \/ /\ ensureTask' = [ensureTask EXCEPT ![t].pc = "testGetMe"]
          /\ UNCHANGED <<clientPool, authCount, faults>>
       \/ /\ ensureTask[t].master = "stale"
          /\ SavedSessionInvalid(t)
          /\ UNCHANGED faults
       \/ /\ ensureTask[t].master = "valid"
          /\ faults < MaxFaults
          /\ faults' = faults + 1
          /\ SavedSessionInvalid(t)
    /\ UNCHANGED <<sessionFile, floodCount, cacheVars, streamVars>>

\* await test.getMe() returns (a valid credential) or throws (a stale one)
TestGetMeDone(t) ==
    /\ ensureTask[t].pc = "testGetMe"
    /\ IF ensureTask[t].master = "valid"
       THEN /\ StartClones(t, <<Client("saved")>>)
            /\ UNCHANGED authCount
       ELSE SavedSessionInvalid(t)
    /\ UNCHANGED <<sessionFile, floodCount, faults, cacheVars, streamVars>>

\* await c.start(...) returns, is rate-limited (FLOOD) or throws another error
AuthDone(t) ==
    /\ ensureTask[t].pc = "auth"
    /\ \/ /\ StartClones(t, <<Client("primary")>>)
          /\ sessionFile' = "valid"
          /\ UNCHANGED <<floodCount, faults>>
       \/ /\ floodCount < MaxFloods
          /\ floodCount' = floodCount + 1
          /\ \E sec \in FloodSeconds :
                ensureTask' = [ensureTask EXCEPT ![t] =
                                  [pc |-> "floodWait", master |-> "none", pending |-> 0,
                                   seconds |-> sec, remaining |-> FloodWait(sec),
                                   waited |-> 0]]
          /\ UNCHANGED <<clientPool, sessionFile, faults>>
       \/ /\ faults < MaxFaults
          /\ faults' = faults + 1
          /\ ensureTask' = [ensureTask EXCEPT ![t].pc = "failed"]
          /\ UNCHANGED <<clientPool, sessionFile, floodCount>>
    /\ UNCHANGED <<authCount, cacheVars, streamVars>>

\* a sleep of the countdown (at most 30 s) is over: the next sleep follows, or
\* the countdown has elapsed and the while loop authenticates again
FloodWaitDone(t) ==
    /\ ensureTask[t].pc = "floodWait"
    /\ IF ensureTask[t].remaining - Min(ensureTask[t].remaining, FLOOD_SLEEP) > 0
       THEN /\ ensureTask' = [ensureTask EXCEPT
                                ![t].remaining = @ - Min(@, FLOOD_SLEEP),
                                ![t].waited = @ + Min(ensureTask[t].remaining, FLOOD_SLEEP)]
            /\ UNCHANGED <<clientPool, authCount>>
       ELSE StartAuth(t, clientPool)
    /\ UNCHANGED <<sessionFile, floodCount, faults, cacheVars, streamVars>>

RECURSIVE Clones(_)
Clones(n) == IF n = 0 THEN <<>> ELSE <<Client("clone")>> \o Clones(n - 1)

\* the pool once ensureClientPool has returned normally with n connected clients
\* (a clone that fails to connect is left out), as startTelegramStream awaits it
\* before anything else
PoolReady(n) ==
    /\ clientPool = <<Client("primary")>> \o Clones(n - 1)
    /\ sessionFile = "valid"
    /\ ensureTask = <<>>
    /\ authCount = 1
    /\ floodCount = 0
    /\ faults = 0

\* a getClient that does not rotate
GetClientFirst(pool, chunkIndex) == IF Len(pool) = 0 THEN 0 ELSE 1

\* getClient(chunkIndex): the slot (from 1) of clientPool[chunkIndex % length];
\* 0 stands for the undefined it yields on an empty pool
GetClient(pool, chunkIndex) ==
    IF Len(pool) = 0 THEN 0 ELSE (chunkIndex % Len(pool)) + 1

\* await Promise.all(clonePromises) returns: the clones that connected are pushed
ClonesDone(t) ==
    /\ ensureTask[t].pc = "clones"
    /\ \E ok \in 0..ensureTask[t].pending :
          /\ ok < ensureTask[t].pending => faults < MaxFaults
          /\ faults' = IF ok < ensureTask[t].pending THEN faults + 1 ELSE faults
          /\ clientPool' = clientPool \o Clones(ok)
    /\ ensureTask' = [ensureTask EXCEPT ![t].pc = "done"]
    /\ UNCHANGED <<sessionFile, authCount, floodCount, cacheVars, streamVars>>

\* the transport of a pool client drops
Disconnect(i) ==
    /\ i \in 1..Len(clientPool)
    /\ clientPool[i].connected
    /\ faults < MaxFaults
    /\ faults' = faults + 1
    /\ clientPool' = [clientPool EXCEPT ![i].connected = FALSE]
    /\ UNCHANGED <<sessionFile, ensureTask, authCount, floodCount, cacheVars, streamVars>>

---------------------------------------------------------------------------
(* Streams.  The tunables are scaled down (the code's values are in the    *)
(* comments); chunk i of a stream holds the bytes at positions             *)
(* i*CHUNK_SIZE .. of the remote document, and a byte's value names its    *)
(* stream and its position, so that any gap, repeat or mix-up shows.       *)

CHUNK_SIZE == 2             \* 1024 * 1024

PARALLEL_WORKERS == 2       \* CLIENT_POOL_SIZE * WORKERS_PER_CONN = 9

PREFETCH_CHUNKS == 1        \* 50

TAIL_CHUNKS == 1            \* 3

SEEK_PREBUF_CHUNKS == 2     \* 10

LOOKAHEAD_CHUNKS == 2       \* 250

MAX_RETRIES == 4

MAX_CONSECUTIVE_FAILURES == 5

MaxFileSize == 5

MaxStarts == 1

MaxResponses == 1

MaxDownloadFaults == 4

StreamBudget == 4           \* chunkCache.maxBytes in the stream specifications

\* Math.ceil(fileSize / CHUNK_SIZE)
TotalChunks(fileSize) == (fileSize + CHUNK_SIZE - 1) \div CHUNK_SIZE

StreamTag(videoId) == IF videoId = <<"a">> THEN 1 ELSE 2

\* what upload.getFile returns for the document of videoId at chunk idx
RemoteChunk(videoId, idx, fileSize) ==
    [p \in 1..Min(CHUNK_SIZE, fileSize - idx * CHUNK_SIZE) |->
        100 * StreamTag(videoId) + idx * CHUNK_SIZE + p - 1]

\* bytes from..to (inclusive) of the stream
StreamBytes(videoId, from, to) ==
    [p \in 1..(to - from + 1) |-> 100 * StreamTag(videoId) + from + p - 1]

NoStream == [fileSize |-> 0, downloader |-> 0]

NoCall == [kind |-> "none", fetch |-> 0, key |-> <<>>, buf |-> <<>>]

\* The shared state the synchronous code paths read and write, as one value
World == [cache |-> chunkCache, inFlight |-> inFlight, fetches |-> fetches,
          engines |-> engines]

\* a function without one point of its domain
Without(f, k) == [x \in DOMAIN f \ {k} |-> f[x]]

\* a function with one point set
With(f, k, v) == [x \in DOMAIN f \cup {k} |-> IF x = k THEN v ELSE f[x]]

\* an id for a new promise: the least one not in use
NewFetchId(fs) ==
    CHOOSE n \in 1..(Cardinality(DOMAIN fs) + 1) : n \notin DOMAIN fs

\* if (c && !c.connected): the attempt on slot c of the pool begins with await
\* c.connect() (slot 0 is the undefined of an empty pool)
NeedsReconnect(pool, c) == c # 0 /\ ~pool[c].connected

\* a _downloadChunkImpl without the test of the offset against the file size
ImplStartNoEndTest(key, videoId, idx, fileSize) ==
    [key |-> key, videoId |-> videoId, idx |-> idx, fileSize |-> fileSize,
     attempt |-> 1, client |-> GetClient(clientPool, idx + 1 - 1),
     reconnecting |-> NeedsReconnect(clientPool, GetClient(clientPool, idx + 1 - 1)),
     done |-> FALSE, result |-> Null]

\* _downloadChunkImpl up to its first await: past the end of the file it
\* returns Buffer.alloc(0) at once, otherwise attempt 1 is under way
ImplStart(key, videoId, idx, fileSize) ==
    IF idx * CHUNK_SIZE >= fileSize
    THEN [key |-> key, videoId |-> videoId, idx |-> idx, fileSize |-> fileSize,
          attempt |-> 0, client |-> 0, reconnecting |-> FALSE, done |-> TRUE,
          result |-> <<>>]
    ELSE [key |-> key, videoId |-> videoId, idx |-> idx, fileSize |-> fileSize,
          attempt |-> 1, client |-> GetClient(clientPool, idx + 1 - 1),
          reconnecting |-> NeedsReconnect(clientPool, GetClient(clientPool, idx + 1 - 1)),
          done |-> FALSE, result |-> Null]

\* downloadChunk without its deduplication
PiggyBacksNever(W, key) == FALSE

\* whether downloadChunk piggy-backs on a registered promise
PiggyBacks(W, key) == key \in DOMAIN W.inFlight

\* downloadChunk up to its await: the world afterwards and what the caller
\* awaits (a cached buffer, the registered promise, or its own new promise)
DownloadChunk(W, videoId, idx, fileSize) ==
    LET key == CacheKey(videoId, idx)
        cached == CacheGetResult(W.cache, key)
        W1 == [W EXCEPT !.cache = CacheGet(W.cache, key)]
    IN  IF ~IsNull(cached) /\ Len(cached) > 0
        THEN [W |-> W1, call |-> [kind |-> "hit", fetch |-> 0, key |-> key, buf |-> cached]]
        ELSE IF PiggyBacks(W1, key)
        THEN [W |-> W1, call |-> [kind |-> "piggy", fetch |-> W1.inFlight[key],
                                  key |-> key, buf |-> <<>>]]
        ELSE LET f == NewFetchId(W1.fetches) IN
             [W |-> [W1 EXCEPT !.fetches = With(W1.fetches, f,
                                                ImplStart(key, videoId, idx, fileSize)),
                               !.inFlight = With(W1.inFlight, key, f)],
              call |-> [kind |-> "owner", fetch |-> f, key |-> key, buf |-> <<>>]]

\* the awaited promise has settled
CallReady(W, call) ==
    \/ call.kind = "hit"
    \/ call.kind \in {"piggy", "owner"} /\ W.fetches[call.fetch].done

\* the value the await yields
CallResult(W, call) ==
    IF call.kind = "hit" THEN call.buf ELSE W.fetches[call.fetch].result

\* a downloadChunk without its finally
CallFinishKeeps(W, call) == W

\* a finally that every caller of downloadChunk runs, not only the registering one
CallFinishAnyCaller(W, call) ==
    IF call.key \in DOMAIN W.inFlight
    THEN [W EXCEPT !.inFlight = Without(W.inFlight, call.key)]
    ELSE W

\* downloadChunk's finally: the caller that registered the promise deletes the key
CallFinish(W, call) ==
    IF call.kind = "owner" /\ call.key \in DOMAIN W.inFlight
    THEN [W EXCEPT !.inFlight = Without(W.inFlight, call.key)]
    ELSE W

\* one download attempt of _downloadChunkImpl returns a non-empty buffer:
\* chunkCache.set(cacheKey, buf); return buf
ImplSucceed(W, f) ==
    LET rec == W.fetches[f]
        buf == RemoteChunk(rec.videoId, rec.idx, rec.fileSize)
    IN  [W EXCEPT !.cache = CacheSet(W.cache, rec.key, buf),
                  !.fetches[f].done = TRUE,
                  !.fetches[f].result = buf]

\* one download attempt fails (reconnect or download throws, or nothing came):
\* the next attempt follows, and after MAX_RETRIES the fetch returns null
ImplFail(W, f) ==
    IF W.fetches[f].attempt >= MAX_RETRIES
    THEN [W EXCEPT !.fetches[f].done = TRUE, !.fetches[f].result = Null]
    ELSE [W EXCEPT !.fetches[f].attempt = @ + 1,
                   !.fetches[f].client =
                       GetClient(clientPool, W.fetches[f].idx + (W.fetches[f].attempt + 1) - 1),
                   !.fetches[f].reconnecting =
                       NeedsReconnect(clientPool,
                           GetClient(clientPool,
                                     W.fetches[f].idx + (W.fetches[f].attempt + 1) - 1))]

---------------------------------------------------------------------------
(* StreamDownloader *)

NewDownloader(videoId, fileSize) ==
    [videoId |-> videoId, fileSize |-> fileSize, totalChunks |-> TotalChunks(fileSize),
     playbackChunk |-> 0, cursor |-> 0, seekGeneration |-> 0, running |-> FALSE,
     reserved |-> {}, again |-> {}]   \* history: the indices _getNextChunk has
                                      \* returned, and those it returned twice

\* a notifyPlayback that repositions the cursor without a new seek generation
NotifyPlaybackSilent(eng, chunkIndex) ==
    IF eng.cursor >= eng.totalChunks \/ eng.cursor > chunkIndex + LOOKAHEAD_CHUNKS
    THEN [eng EXCEPT !.playbackChunk = chunkIndex, !.cursor = chunkIndex]
    ELSE [eng EXCEPT !.playbackChunk = chunkIndex]

\* a notifyPlayback that records the playback chunk and never repositions
NotifyPlaybackKeepsCursor(eng, chunkIndex) == [eng EXCEPT !.playbackChunk = chunkIndex]

\* a notifyPlayback that repositions only a cursor that ran past the end
NotifyPlaybackPastEndOnly(eng, chunkIndex) ==
    IF eng.cursor >= eng.totalChunks
    THEN [eng EXCEPT !.playbackChunk = chunkIndex,
                     !.seekGeneration = @ + 1,
                     !.cursor = chunkIndex]
    ELSE [eng EXCEPT !.playbackChunk = chunkIndex]

\* notifyPlayback(chunkIndex)
NotifyPlayback(eng, chunkIndex) ==
    IF eng.cursor >= eng.totalChunks \/ eng.cursor > chunkIndex + LOOKAHEAD_CHUNKS
    THEN [eng EXCEPT !.playbackChunk = chunkIndex,
                     !.seekGeneration = @ + 1,
                     !.cursor = chunkIndex]
    ELSE [eng EXCEPT !.playbackChunk = chunkIndex]

\* a seekTo that moves the cursor without a new seek generation
SeekToSilent(eng, chunkIndex) ==
    [eng EXCEPT !.cursor = chunkIndex, !.playbackChunk = chunkIndex]

\* seekTo(chunkIndex)
SeekTo(eng, chunkIndex) ==
    [eng EXCEPT !.seekGeneration = @ + 1, !.cursor = chunkIndex,
                !.playbackChunk = chunkIndex]

\* a stop() that leaves the running flag alone
StopDownloaderNoop(eng) == eng

\* stop()
StopDownloader(eng) == [eng EXCEPT !.running = FALSE]

\* the history of an engine's reservations after _getNextChunk returns idx
Reserve(eng, idx) ==
    [eng EXCEPT !.reserved = @ \cup {idx},
                !.again = IF idx \in eng.reserved THEN @ \cup {idx} ELSE @]

\* a _getNextChunk that does not look at the in-flight registry
RECURSIVE GetNextChunkNoDedup(_, _, _)
GetNextChunkNoDedup(W, e, scanned) ==
    LET eng == W.engines[e]
        limit == eng.playbackChunk + LOOKAHEAD_CHUNKS
    IN  IF eng.cursor < eng.totalChunks /\ eng.cursor <= limit /\ scanned < LOOKAHEAD_CHUNKS
        THEN LET idx == eng.cursor
                 key == CacheKey(eng.videoId, idx)
                 W1 == [W EXCEPT !.engines[e].cursor = idx + 1]
             IN  IF ~CacheHas(W.cache, key)
                 THEN [W |-> [W1 EXCEPT !.engines[e] = Reserve(@, idx)], idx |-> idx]
                 ELSE GetNextChunkNoDedup(W1, e, scanned + 1)
        ELSE [W |-> W, idx |-> -1]

\* a _getNextChunk that is not held to the look-ahead window
RECURSIVE GetNextChunkNoLimit(_, _, _)
GetNextChunkNoLimit(W, e, scanned) ==
    LET eng == W.engines[e]
    IN  IF eng.cursor < eng.totalChunks /\ scanned < LOOKAHEAD_CHUNKS
        THEN LET idx == eng.cursor
                 key == CacheKey(eng.videoId, idx)
                 W1 == [W EXCEPT !.engines[e].cursor = idx + 1]
             IN  IF ~CacheHas(W.cache, key) /\ key \notin DOMAIN W.inFlight
                 THEN [W |-> [W1 EXCEPT !.engines[e] = Reserve(@, idx)], idx |-> idx]
                 ELSE GetNextChunkNoLimit(W1, e, scanned + 1)
        ELSE [W |-> W, idx |-> -1]

\* a _getNextChunk that does not stop at the end of the file
RECURSIVE GetNextChunkNoEnd(_, _, _)
GetNextChunkNoEnd(W, e, scanned) ==
    LET eng == W.engines[e]
        limit == eng.playbackChunk + LOOKAHEAD_CHUNKS
    IN  IF eng.cursor <= limit /\ scanned < LOOKAHEAD_CHUNKS
        THEN LET idx == eng.cursor
                 key == CacheKey(eng.videoId, idx)
                 W1 == [W EXCEPT !.engines[e].cursor = idx + 1]
             IN  IF ~CacheHas(W.cache, key) /\ key \notin DOMAIN W.inFlight
                 THEN [W |-> [W1 EXCEPT !.engines[e] = Reserve(@, idx)], idx |-> idx]
                 ELSE GetNextChunkNoEnd(W1, e, scanned + 1)
        ELSE [W |-> W, idx |-> -1]

\* _getNextChunk(): the world afterwards (the cursor moved) and the index, or -1
RECURSIVE GetNextChunk(_, _, _)
GetNextChunk(W, e, scanned) ==
    LET eng == W.engines[e]
        limit == eng.playbackChunk + LOOKAHEAD_CHUNKS
    IN  IF eng.cursor < eng.totalChunks /\ eng.cursor <= limit /\ scanned < LOOKAHEAD_CHUNKS
        THEN LET idx == eng.cursor
                 key == CacheKey(eng.videoId, idx)
                 W1 == [W EXCEPT !.engines[e].cursor = idx + 1]
             IN  IF ~CacheHas(W.cache, key) /\ key \notin DOMAIN W.inFlight
                 THEN [W |-> [W1 EXCEPT !.engines[e] = Reserve(@, idx)], idx |-> idx]
                 ELSE GetNextChunk(W1, e, scanned + 1)
        ELSE [W |-> W, idx |-> -1]

DoneWorker == [pc |-> "done", gen |-> 0, idx |-> -1, call |-> NoCall]

\* a _worker whose loop never tests the running flag
WorkerRunForEver(W, e) ==
    LET gen == W.engines[e].seekGeneration
        nx == GetNextChunk(W, e, 0)
    IN  IF nx.idx = -1
        THEN [W |-> nx.W, wk |-> [pc |-> "sleepIdle", gen |-> 0, idx |-> -1,
                                  call |-> NoCall]]
        ELSE LET d == DownloadChunk(nx.W, W.engines[e].videoId, nx.idx,
                                    W.engines[e].fileSize)
             IN  [W |-> d.W, wk |-> [pc |-> "fetch", gen |-> gen, idx |-> nx.idx,
                                     call |-> d.call]]

\* _worker from the top of its loop to its next await
WorkerRun(W, e) ==
    IF ~W.engines[e].running THEN [W |-> W, wk |-> DoneWorker]
    ELSE LET gen == W.engines[e].seekGeneration
             nx == GetNextChunk(W, e, 0)
         IN  IF nx.idx = -1
             THEN [W |-> nx.W, wk |-> [pc |-> "sleepIdle", gen |-> 0, idx |-> -1,
                                       call |-> NoCall]]
             ELSE LET d == DownloadChunk(nx.W, W.engines[e].videoId, nx.idx,
                                         W.engines[e].fileSize)
                  IN  [W |-> d.W, wk |-> [pc |-> "fetch", gen |-> gen, idx |-> nx.idx,
                                          call |-> d.call]]

\* start(fromChunk): the workers are launched one after the other, each running
\* to its first await
RECURSIVE LaunchWorkers(_, _, _, _)
LaunchWorkers(W, e, i, wks) ==
    IF i > PARALLEL_WORKERS THEN [W |-> W, wks |-> wks]
    ELSE LET r == WorkerRun(W, e) IN LaunchWorkers(r.W, e, i + 1, Append(wks, r.wk))

StartDownloader(W, e, fromChunk) ==
    LaunchWorkers([W EXCEPT !.engines[e].cursor = fromChunk,
                            !.engines[e].playbackChunk = 0,
                            !.engines[e].running = TRUE], e, 1, <<>>)


---------------------------------------------------------------------------
(* downloadChunksParallel: a queue of indices shared by its workers *)

NoJob == [queue |-> <<>>, subs |-> <<>>, asked |-> <<>>, results |-> <<>>]

DoneSub == [pc |-> "done", idx |-> -1, call |-> NoCall]

\* results.set(idx, (buf && buf.length > 0) ? buf : null)
ResultsSet(results, idx, buf) ==
    With(results, idx, IF ~IsNull(buf) /\ Len(buf) > 0 THEN buf ELSE Null)

\* worker() of downloadChunksParallel from the top of its loop to its next await:
\* cached indices are recorded without suspending.  The result names the world, the
\* queue and the results left and the worker's state.
RECURSIVE SubRun(_, _, _, _, _)
SubRun(W, queue, results, videoId, fileSize) ==
    IF queue = <<>> THEN [W |-> W, queue |-> queue, results |-> results, sub |-> DoneSub]
    ELSE LET idx == Head(queue)
             key == CacheKey(videoId, idx)
             c == CacheGetResult(W.cache, key)
             W1 == [W EXCEPT !.cache = CacheGet(W.cache, key)]
         IN  IF ~IsNull(c) /\ Len(c) > 0
             THEN SubRun(W1, Tail(queue), With(results, idx, c), videoId, fileSize)
             ELSE LET d == DownloadChunk(W1, videoId, idx, fileSize) IN
                  [W |-> d.W, queue |-> Tail(queue), results |-> results,
                   sub |-> [pc |-> "fetch", idx |-> idx, call |-> d.call]]

RECURSIVE LaunchSubs(_, _, _, _, _)
LaunchSubs(W, job, videoId, fileSize, n) ==
    IF n = 0 THEN [W |-> W, job |-> job]
    ELSE LET r == SubRun(W, job.queue, job.results, videoId, fileSize) IN
         LaunchSubs(r.W, [job EXCEPT !.queue = r.queue, !.results = r.results,
                                     !.subs = Append(@, r.sub)],
                    videoId, fileSize, n - 1)

\* downloadChunksParallel(videoId, inputLocation, chunkIndices, fileSize, dcId)
\* up to await Promise.all(workers)
DownloadChunksParallel(W, videoId, chunkIndices, fileSize) ==
    LaunchSubs(W, [queue |-> chunkIndices, subs |-> <<>>, asked |-> chunkIndices,
                   results |-> <<>>],
               videoId, fileSize, Min(PARALLEL_WORKERS, Len(chunkIndices)))

JobDone(job) == \A i \in 1..Len(job.subs) : job.subs[i].pc = "done"

\* one worker of a job resumes from its await of downloadChunk
SubResume(W, job, i, videoId, fileSize) ==
    LET r == SubRun(CallFinish(W, job.subs[i].call), job.queue,
                    ResultsSet(job.results, job.subs[i].idx,
                               CallResult(W, job.subs[i].call)),
                    videoId, fileSize)
    IN  [W |-> r.W, job |-> [job EXCEPT !.queue = r.queue, !.results = r.results,
                                        !.subs[i] = r.sub]]

\* the indices from..to-1 as a tuple
Indices(from, to) == [i \in 1..Max(0, to - from) |-> from + i - 1]

\* a warm-up of the head alone
InitialIndicesHeadOnly(fileSize) ==
    Indices(0, Min(PREFETCH_CHUNKS, TotalChunks(fileSize)))

\* the chunk indices prefetchInitialChunks asks for: the head and the tail
InitialIndices(fileSize) ==
    LET totalChunks == TotalChunks(fileSize)
        startCount == Min(PREFETCH_CHUNKS, totalChunks)
    IN  Indices(0, startCount)
          \o Indices(Max(startCount, totalChunks - TAIL_CHUNKS), totalChunks)

---------------------------------------------------------------------------
(* The Range header *)

BytesEq == <<"b", "y", "t", "e", "s", "=">>

IsDigit(c) == c \in {"0", "1", "2", "3", "4", "5", "6", "7", "8", "9"}

DigitVal(c) == CHOOSE d \in 0..9 : DigitChar(d) = c

\* parseInt(digits, 10)
RECURSIVE ParseInt(_)
ParseInt(digits) ==
    IF digits = <<>> THEN 0
    ELSE 10 * ParseInt(SubSeq(digits, 1, Len(digits) - 1)) + DigitVal(digits[Len(digits)])

\* the longest run of digits of h that starts at position p
RECURSIVE DigitRun(_, _)
DigitRun(h, p) ==
    IF p <= Len(h) /\ IsDigit(h[p]) THEN <<h[p]>> \o DigitRun(h, p + 1) ELSE <<>>

\* /bytes=(\d+)-(\d*)/ matches at position p
MatchesAt(h, p) ==
    /\ p + Len(BytesEq) - 1 <= Len(h)
    /\ SubSeq(h, p, p + Len(BytesEq) - 1) = BytesEq
    /\ LET g1 == DigitRun(h, p + Len(BytesEq))
           q == p + Len(BytesEq) + Len(g1)
       IN  Len(g1) > 0 /\ q <= Len(h) /\ h[q] = "-"

\* rangeHeader.match(/bytes=(\d+)-(\d*)/): the leftmost match, or none
RangeMatch(h) ==
    IF \E p \in 1..Len(h) : MatchesAt(h, p)
    THEN LET p == CHOOSE p \in 1..Len(h) :
                      MatchesAt(h, p) /\ \A q \in 1..(p - 1) : ~MatchesAt(h, q)
             g1 == DigitRun(h, p + Len(BytesEq))
         IN  [ok |-> TRUE, g1 |-> g1,
              g2 |-> DigitRun(h, p + Len(BytesEq) + Len(g1) + 1)]
    ELSE [ok |-> FALSE, g1 |-> <<>>, g2 |-> <<>>]

\* the end as parsed, not clamped
ClampEndNone(end, fileSize) == end

\* if (end >= fileSize) end = fileSize - 1
ClampEnd(end, fileSize) == IF end >= fileSize THEN fileSize - 1 ELSE end

\* start and end as the handler computes them from the match m of the header h
RangeOfMatch(m, h, fileSize) ==
    [start |-> IF h # <<>> /\ m.ok THEN ParseInt(m.g1) ELSE 0,
     end |-> ClampEnd(IF h # <<>> /\ m.ok /\ m.g2 # <<>> THEN ParseInt(m.g2)
                      ELSE fileSize - 1, fileSize)]

\* start and end as the handler computes them (end clamped to fileSize - 1)
ParseRange(h, fileSize) == RangeOfMatch(RangeMatch(h), h, fileSize)

\* 'bytes ' + start + '-' + end + '/' + fileSize
ContentRange(start, end, fileSize) ==
    <<"b", "y", "t", "e", "s", " ">> \o NumberToString(start) \o <<"-">>
        \o NumberToString(end) \o <<"/">> \o NumberToString(fileSize)

\* the header a client sends for bytes=S- (E = -1) or bytes=S-E; <<>> is no header
RangeHeader(S, E) ==
    BytesEq \o ToDigits(S) \o <<"-">> \o (IF E < 0 THEN <<>> ELSE ToDigits(E))


---------------------------------------------------------------------------
(* The request handler of startLocalServer *)

FreeResponse ==
    [pc |-> "free", videoId |-> <<>>, method |-> "", header |-> <<>>,
     status |-> 0, contentLength |-> 0, contentRange |-> <<>>,
     rangeStart |-> 0, rangeEnd |-> 0,
     fileSize |-> 0, engine |-> 0, bytePos |-> 0, targetEnd |-> 0,
     consecutiveFailures |-> 0, body |-> <<>>, call |-> NoCall, job |-> NoJob,
     destroyed |-> FALSE, aborted |-> FALSE,
     seeked |-> FALSE,                            \* history: seekTo was called
     pressured |-> FALSE,      \* history: the last res.write returned false and
                               \* the drain event has not arrived since
     registered |-> FALSE, afterStop |-> FALSE]   \* history: the stream at arrival

\* downloader.notifyPlayback / seekTo on the handler's engine
OnEngine(W, e, eng) == [W EXCEPT !.engines[e] = eng]

\* a handler that never waits for the drain event
WaitsForDrainNever(ok) == FALSE

\* if (!ok) await new Promise(r => res.once('drain', r))
WaitsForDrain(ok) == ~ok

\* a handler that gives up one failure early
TooManyFailuresEarly(consecutiveFailures) ==
    consecutiveFailures >= MAX_CONSECUTIVE_FAILURES - 1

\* if (consecutiveFailures >= MAX_CONSECUTIVE_FAILURES) ... break
TooManyFailures(consecutiveFailures) ==
    consecutiveFailures >= MAX_CONSECUTIVE_FAILURES

RECURSIVE RespLoop(_, _, _)
RECURSIVE RespGotChunk(_, _, _, _)

\* the body loop from its condition to the next await (or res.end()); writes is
\* the number of res.write calls that return true before one reports back-pressure
RespLoop(W, r, writes) ==
    IF ~(r.bytePos < r.targetEnd) \/ r.destroyed
    THEN [W |-> W, r |-> [r EXCEPT !.pc = "done"]]
    ELSE LET chunkIndex == r.bytePos \div CHUNK_SIZE
             W1 == OnEngine(W, r.engine, NotifyPlayback(W.engines[r.engine], chunkIndex))
             cacheKey == CacheKey(r.videoId, chunkIndex)
             chunkBuf == CacheGetResult(W1.cache, cacheKey)
             W2 == [W1 EXCEPT !.cache = CacheGet(W1.cache, cacheKey)]
         IN  IF IsNull(chunkBuf) /\ cacheKey \in DOMAIN W2.inFlight
             THEN [W |-> W2,
                   r |-> [r EXCEPT !.pc = "awaitInflight",
                                   !.call = [kind |-> "piggy", fetch |-> W2.inFlight[cacheKey],
                                             key |-> cacheKey, buf |-> <<>>]]]
             ELSE IF IsNull(chunkBuf)
             THEN LET d == DownloadChunk(W2, r.videoId, chunkIndex, r.fileSize) IN
                  [W |-> d.W, r |-> [r EXCEPT !.pc = "awaitDownload", !.call = d.call]]
             ELSE RespGotChunk(W2, r, chunkBuf, writes)

\* the body loop writing all that is left of the chunk, whatever the range's end
RespGotChunkWholeChunk(W, r, chunkBuf, writes) ==
    IF IsNull(chunkBuf) \/ Len(chunkBuf) = 0
    THEN IF TooManyFailures(r.consecutiveFailures + 1)
         THEN [W |-> W, r |-> [r EXCEPT !.consecutiveFailures = @ + 1, !.call = NoCall,
                                        !.aborted = TRUE, !.pc = "done"]]
         ELSE [W |-> W, r |-> [r EXCEPT !.consecutiveFailures = @ + 1, !.call = NoCall,
                                        !.pc = "sleepFail"]]
    ELSE LET offsetInChunk == r.bytePos % CHUNK_SIZE
             toWrite == Len(chunkBuf) - offsetInChunk
         IN  IF toWrite <= 0
             THEN [W |-> W, r |-> [r EXCEPT !.consecutiveFailures = 0, !.call = NoCall,
                                            !.pc = "done"]]
             ELSE LET r1 == [r EXCEPT !.consecutiveFailures = 0, !.call = NoCall,
                                      !.body = @ \o SubSeq(chunkBuf, offsetInChunk + 1,
                                                           offsetInChunk + toWrite),
                                      !.bytePos = @ + toWrite,
                                      !.pressured = (writes = 0)]
                  IN  IF WaitsForDrain(writes > 0)
                      THEN [W |-> W, r |-> [r1 EXCEPT !.pc = "drain"]]
                      ELSE RespLoop(W, r1, Max(writes - 1, 0))

\* the body loop from the test of the chunk read (a buffer or null) onwards
RespGotChunk(W, r, chunkBuf, writes) ==
    IF IsNull(chunkBuf) \/ Len(chunkBuf) = 0
    THEN IF TooManyFailures(r.consecutiveFailures + 1)
         THEN [W |-> W, r |-> [r EXCEPT !.consecutiveFailures = @ + 1, !.call = NoCall,
                                        !.aborted = TRUE, !.pc = "done"]]
         ELSE [W |-> W, r |-> [r EXCEPT !.consecutiveFailures = @ + 1, !.call = NoCall,
                                        !.pc = "sleepFail"]]
    ELSE LET offsetInChunk == r.bytePos % CHUNK_SIZE
             remaining == r.targetEnd - r.bytePos
             available == Len(chunkBuf) - offsetInChunk
             toWrite == Min(available, remaining)
         IN  IF toWrite <= 0
             THEN [W |-> W, r |-> [r EXCEPT !.consecutiveFailures = 0, !.call = NoCall,
                                            !.pc = "done"]]
             ELSE LET r1 == [r EXCEPT !.consecutiveFailures = 0, !.call = NoCall,
                                      !.body = @ \o SubSeq(chunkBuf, offsetInChunk + 1,
                                                           offsetInChunk + toWrite),
                                      !.bytePos = @ + toWrite,
                                      !.pressured = (writes = 0)]
                  IN  IF WaitsForDrain(writes > 0)
                      THEN [W |-> W, r |-> [r1 EXCEPT !.pc = "drain"]]
                      ELSE RespLoop(W, r1, Max(writes - 1, 0))

\* whether the handler finds the stream: activeStreams.get(videoId)
Lookup(streams, videoId) == streams[videoId]

\* a seek burst that is one chunk short
BurstIndicesShort(W, videoId, firstChunk, totalChunks) ==
    LET burstEnd == Min(firstChunk + SEEK_PREBUF_CHUNKS - 1, totalChunks)
    IN  SelectSeq(Indices(firstChunk, burstEnd),
                  LAMBDA bi : ~CacheHas(W.cache, CacheKey(videoId, bi)))

\* the indices of the seek burst: those of [firstChunk, burstEnd) not cached
BurstIndices(W, videoId, firstChunk, totalChunks) ==
    LET burstEnd == Min(firstChunk + SEEK_PREBUF_CHUNKS, totalChunks)
    IN  SelectSeq(Indices(firstChunk, burstEnd),
                  LAMBDA bi : ~CacheHas(W.cache, CacheKey(videoId, bi)))

\* the handler from the response head to its first await (or its end): rg is
\* the range parsed, base the response so far
ServeRange(W, info, base, videoId, header, rg, writes) ==
    LET r1 == [base EXCEPT
                 !.status = IF header # <<>> THEN 206 ELSE 200,
                 !.contentLength = IF header # <<>> THEN rg.end - rg.start + 1
                                   ELSE info.fileSize,
                 !.contentRange = IF header # <<>>
                                  THEN ContentRange(rg.start, rg.end, info.fileSize)
                                  ELSE <<>>,
                 !.rangeStart = rg.start, !.rangeEnd = rg.end,
                 !.fileSize = info.fileSize, !.engine = info.downloader,
                 !.bytePos = rg.start, !.targetEnd = rg.end + 1]
        firstChunk == rg.start \div CHUNK_SIZE
        totalChunks == TotalChunks(info.fileSize)
    IN  IF ~CacheHas(W.cache, CacheKey(videoId, firstChunk))
        THEN LET W1 == OnEngine(W, info.downloader,
                                SeekTo(W.engines[info.downloader], firstChunk))
                 burstIndices == BurstIndices(W1, videoId, firstChunk, totalChunks)
             IN  IF Len(burstIndices) > 0
                 THEN LET j == DownloadChunksParallel(W1, videoId, burstIndices,
                                                      info.fileSize)
                      IN  [W |-> j.W, r |-> [r1 EXCEPT !.pc = "burst", !.job = j.job,
                                                       !.seeked = TRUE]]
                 ELSE RespLoop(W1, [r1 EXCEPT !.seeked = TRUE], writes)
        ELSE RespLoop(W, r1, writes)

\* a HEAD that is treated as a seek to the start of the file
HeadReplySeeking(W, info, base) ==
    [W |-> IF info.downloader # 0
           THEN OnEngine(W, info.downloader, SeekTo(W.engines[info.downloader], 0))
           ELSE W,
     r |-> [base EXCEPT !.pc = "done", !.status = 200,
                        !.contentLength = info.fileSize,
                        !.fileSize = info.fileSize]]

\* if (req.method === 'HEAD'): writeHead(200, {Content-Length: fileSize, ...}),
\* res.end(), return
HeadReply(W, info, base) ==
    [W |-> W, r |-> [base EXCEPT !.pc = "done", !.status = 200,
                                 !.contentLength = info.fileSize,
                                 !.fileSize = info.fileSize]]

\* the handler from the arrival of a request to its first await (or its end)
HandleRequest(W, streams, videoId, method, header, writes) ==
    LET info == Lookup(streams, videoId)
        base == [FreeResponse EXCEPT !.videoId = videoId, !.method = method,
                                     !.header = header]
    IN  IF info = NoStream
        THEN [W |-> W, r |-> [base EXCEPT !.pc = "done", !.status = 404]]
        ELSE IF method = "HEAD"
        THEN HeadReply(W, info, base)
        ELSE ServeRange(W, info, base, videoId, header,
                        ParseRange(header, info.fileSize), writes)

\* the handler resumes from await inFlight.get(cacheKey): null sends it on to the
\* inline downloadChunk, anything else (an empty buffer too) to the test of the read
RespAfterInflight(W, r, writes) ==
    LET chunkBuf == CallResult(W, r.call) IN
    IF IsNull(chunkBuf)
    THEN LET d == DownloadChunk(W, r.videoId, r.bytePos \div CHUNK_SIZE, r.fileSize) IN
         [W |-> d.W, r |-> [r EXCEPT !.pc = "awaitDownload", !.call = d.call]]
    ELSE RespGotChunk(W, r, chunkBuf, writes)

\* the handler resumes from await downloadChunk(...)
RespAfterDownload(W, r, writes) ==
    RespGotChunk(CallFinish(W, r.call), r, CallResult(W, r.call), writes)

---------------------------------------------------------------------------
(* startTelegramStream and stopStream *)

IdleStart == [pc |-> "idle", videoId |-> <<>>, fileSize |-> 0, job |-> NoJob]

\* stopStream(videoId): the engine of the registration stops, the registration
\* goes, the cache entries under the prefix videoId + ':' go
StopStreamWorld(W, streams, videoId) ==
    LET info == streams[videoId]
        W1 == IF info # NoStream /\ info.downloader # 0
              THEN OnEngine(W, info.downloader, StopDownloader(W.engines[info.downloader]))
              ELSE W
    IN  [W1 EXCEPT !.cache = CacheDeletePrefix(W1.cache, videoId \o <<":">>)]

\* a stopStream that leaves the registration in place
StopStreamTableKeep(streams, videoId) == streams

StopStreamTable(streams, videoId) == [streams EXCEPT ![videoId] = NoStream]


---------------------------------------------------------------------------
(* Actions on streams: one per handler entry or resumption.  Every action  *)
(* runs its code to the next await.                                        *)

StreamIds == {<<"a">>}

NoShutdown == [pc |-> "idle", i |-> 0]

CallRefs(call) == IF call.kind \in {"piggy", "owner"} THEN {call.fetch} ELSE {}

JobRefs(job) == UNION {CallRefs(job.subs[i].call) : i \in 1..Len(job.subs)}

\* the promises something still holds: the registry and every awaiting task
Referenced(W, wks, rs, sts) ==
    {W.inFlight[k] : k \in DOMAIN W.inFlight}
      \cup UNION {CallRefs(wks[e][w].call) : e \in 1..Len(wks), w \in 1..PARALLEL_WORKERS}
      \cup UNION {CallRefs(rs[r].call) \cup JobRefs(rs[r].job) : r \in 1..Len(rs)}
      \cup UNION {JobRefs(sts[s].job) : s \in 1..Len(sts)}

\* the state after a step: the world and the tasks; settled promises nothing
\* holds any more are dropped
Commit(W, streams, wks, rs, sts, stp, df) ==
    /\ chunkCache' = W.cache
    /\ inFlight' = W.inFlight
    /\ engines' = W.engines
    /\ fetches' = [f \in DOMAIN W.fetches \cap Referenced(W, wks, rs, sts) |-> W.fetches[f]]
    /\ activeStreams' = streams
    /\ workers' = wks
    /\ responses' = rs
    /\ starts' = sts
    /\ stopped' = stp
    /\ downloadFaults' = df
    /\ UNCHANGED <<lastOp, poolVars, shutdown>>

StreamUnused ==
    /\ activeStreams = [v \in StreamIds |-> NoStream]
    /\ engines = <<>>
    /\ workers = <<>>
    /\ inFlight = <<>>
    /\ fetches = <<>>
    /\ responses = <<>>
    /\ starts = <<>>
    /\ stopped = [v \in StreamIds |-> FALSE]
    /\ downloadFaults = 0
    /\ shutdown = NoShutdown

InitStreamWith(n) ==
    /\ chunkCache = NewChunkCache(StreamBudget)
    /\ lastOp = NoOp
    /\ PoolReady(n)
    /\ activeStreams = [v \in StreamIds |-> NoStream]
    /\ engines = <<>>
    /\ workers = <<>>
    /\ inFlight = <<>>
    /\ fetches = <<>>
    /\ responses = [r \in 1..MaxResponses |-> FreeResponse]
    /\ starts = [s \in 1..MaxStarts |-> IdleStart]
    /\ stopped = [v \in StreamIds |-> FALSE]
    /\ downloadFaults = 0
    /\ shutdown = NoShutdown

\* no stream yet, over a full pool
InitStream == InitStreamWith(CLIENT_POOL_SIZE)

\* no stream yet, over a pool that some clones may have failed to join
InitFetch == \E n \in 1..CLIENT_POOL_SIZE : InitStreamWith(n)

\* startTelegramStream from step 4 (the pool, the server and the file are there):
\* prefetchInitialChunks up to its await
StartCall(s, videoId, fileSize) ==
    /\ starts[s].pc = "idle"
    /\ \A t \in 1..Len(starts) :      \* the document of a video has one size
           (starts[t].pc # "idle" /\ starts[t].videoId = videoId)
               => starts[t].fileSize = fileSize
    /\ LET j == DownloadChunksParallel(World, videoId, InitialIndices(fileSize), fileSize) IN
       Commit(j.W, activeStreams, workers, responses,
              [starts EXCEPT ![s] = [pc |-> "warmup", videoId |-> videoId,
                                     fileSize |-> fileSize, job |-> j.job]],
              [stopped EXCEPT ![videoId] = FALSE], downloadFaults)

\* a worker of the warm-up resumes from its downloadChunk
WarmupSubResume(s, i) ==
    /\ starts[s].pc = "warmup"
    /\ i \in 1..Len(starts[s].job.subs)
    /\ starts[s].job.subs[i].pc = "fetch"
    /\ CallReady(World, starts[s].job.subs[i].call)
    /\ LET j == SubResume(World, starts[s].job, i, starts[s].videoId, starts[s].fileSize) IN
       Commit(j.W, activeStreams, workers, responses,
              [starts EXCEPT ![s].job = j.job], stopped, downloadFaults)

\* the warm-up is over: steps 5 and 6, the engine is built and started and the
\* stream registered
WarmupDone(s) ==
    /\ starts[s].pc = "warmup"
    /\ JobDone(starts[s].job)
    /\ LET e == Len(engines) + 1
           W0 == [World EXCEPT !.engines =
                     Append(engines, NewDownloader(starts[s].videoId, starts[s].fileSize))]
           st == StartDownloader(W0, e, PREFETCH_CHUNKS)
       IN  Commit(st.W,
                  [activeStreams EXCEPT ![starts[s].videoId] =
                      [fileSize |-> starts[s].fileSize, downloader |-> e]],
                  Append(workers, st.wks), responses,
                  [starts EXCEPT ![s] = [pc |-> "done", videoId |-> starts[s].videoId,
                                         fileSize |-> starts[s].fileSize, job |-> NoJob]],
                  [stopped EXCEPT ![starts[s].videoId] = FALSE], downloadFaults)

\* stopStream(videoId)
StopStream(videoId) ==
    Commit(StopStreamWorld(World, activeStreams, videoId),
           StopStreamTable(activeStreams, videoId),
           workers, responses, starts, [stopped EXCEPT ![videoId] = TRUE], downloadFaults)

\* a download attempt of a pending fetch returns its bytes (it was made on a
\* client: getClient yielded one)
FetchSucceed(f) ==
    /\ f \in DOMAIN fetches
    /\ ~fetches[f].done
    /\ fetches[f].client # 0
    /\ Commit(ImplSucceed(World, f), activeStreams, workers, responses, starts, stopped,
              downloadFaults)

\* a download attempt of a pending fetch fails
FetchFail(f) ==
    /\ f \in DOMAIN fetches
    /\ ~fetches[f].done
    /\ downloadFaults < MaxDownloadFaults
    /\ Commit(ImplFail(World, f), activeStreams, workers, responses, starts, stopped,
              downloadFaults + 1)

\* a download attempt of a pending fetch that a response is waiting for fails
\* while the remote is out of reach: any number of attempts may
FetchFailOutage(f) ==
    /\ f \in DOMAIN fetches
    /\ ~fetches[f].done
    /\ \E r \in 1..Len(responses) :
           /\ responses[r].pc \in {"awaitInflight", "awaitDownload"}
           /\ responses[r].call.fetch = f
    /\ Commit(ImplFail(World, f), activeStreams, workers, responses, starts, stopped,
              downloadFaults)

\* await c.connect() of an attempt returns: the client is connected and the
\* download of the attempt begins
ReconnectDone(f) ==
    /\ f \in DOMAIN fetches
    /\ ~fetches[f].done
    /\ fetches[f].reconnecting
    /\ clientPool' = [clientPool EXCEPT ![fetches[f].client].connected = TRUE]
    /\ fetches' = [fetches EXCEPT ![f].reconnecting = FALSE]
    /\ UNCHANGED <<cacheVars, sessionFile, ensureTask, authCount, floodCount, faults,
                   activeStreams, engines, workers, inFlight, responses, starts, stopped,
                   downloadFaults, shutdown>>

\* the download of an attempt whose client is connected returns its bytes
FetchSucceedConnected(f) ==
    /\ f \in DOMAIN fetches
    /\ ~fetches[f].reconnecting
    /\ FetchSucceed(f)

\* a download attempt on the undefined client of an empty pool throws
FetchFailNoClient(f) ==
    /\ f \in DOMAIN fetches
    /\ ~fetches[f].done
    /\ fetches[f].client = 0
    /\ Commit(ImplFail(World, f), activeStreams, workers, responses, starts, stopped,
              downloadFaults)

\* destroy(): the downloader of every registered stream is stopped, then
\* activeStreams.clear() and chunkCache.clear()
DestroyWorld(W, streams) ==
    [W EXCEPT !.engines = [e \in 1..Len(W.engines) |->
                              IF \E v \in StreamIds : streams[v] # NoStream
                                                        /\ streams[v].downloader = e
                              THEN StopDownloader(W.engines[e])
                              ELSE W.engines[e]],
              !.cache = CacheClear(W.cache)]

\* the next client after slot i that destroy's loop disconnects, or 0
NextConnected(pool, i) ==
    IF \E j \in (i + 1)..Len(pool) : pool[j].connected
    THEN CHOOSE j \in (i + 1)..Len(pool) :
             /\ pool[j].connected
             /\ \A k \in (i + 1)..(j - 1) : ~pool[k].connected
    ELSE 0

\* destroy's loop over clientPool from slot i on: to the next await c.disconnect(),
\* or to clientPool = [] and the return
DestroyLoop(pool, i) ==
    IF NextConnected(pool, i) = 0
    THEN /\ clientPool' = <<>>
         /\ shutdown' = [pc |-> "returned", i |-> 0]
    ELSE /\ clientPool' = pool
         /\ shutdown' = [pc |-> "disconnect", i |-> NextConnected(pool, i)]

\* destroy() up to its first await
DestroyCall ==
    /\ shutdown.pc = "idle"
    /\ chunkCache' = DestroyWorld(World, activeStreams).cache
    /\ engines' = DestroyWorld(World, activeStreams).engines
    /\ activeStreams' = [v \in StreamIds |-> NoStream]
    /\ DestroyLoop(clientPool, 0)
    /\ UNCHANGED <<lastOp, sessionFile, ensureTask, authCount, floodCount, faults,
                   workers, inFlight, fetches, responses, starts, stopped, downloadFaults>>

\* await c.disconnect() returns (or throws, which destroy ignores)
DestroyDisconnected ==
    /\ shutdown.pc = "disconnect"
    /\ DestroyLoop([clientPool EXCEPT ![shutdown.i].connected = FALSE], shutdown.i)
    /\ UNCHANGED <<cacheVars, sessionFile, ensureTask, authCount, floodCount, faults,
                   activeStreams, engines, workers, inFlight, fetches, responses, starts,
                   stopped, downloadFaults>>

\* a prefetch worker resumes from await downloadChunk(...): after a seek it loops at
\* once, otherwise it sleeps 30 ms
WorkerFetchDone(e, w) ==
    /\ e \in 1..Len(workers)
    /\ workers[e][w].pc = "fetch"
    /\ CallReady(World, workers[e][w].call)
    /\ LET W1 == CallFinish(World, workers[e][w].call) IN
       IF workers[e][w].gen # engines[e].seekGeneration
       THEN LET r == WorkerRun(W1, e) IN
            Commit(r.W, activeStreams, [workers EXCEPT ![e][w] = r.wk], responses, starts,
                   stopped, downloadFaults)
       ELSE Commit(W1, activeStreams,
                   [workers EXCEPT ![e][w] = [pc |-> "sleepCool", gen |-> 0, idx |-> -1,
                                             call |-> NoCall]],
                   responses, starts, stopped, downloadFaults)

\* a prefetch worker wakes from one of its 30 ms sleeps
WorkerWake(e, w) ==
    /\ e \in 1..Len(workers)
    /\ workers[e][w].pc \in {"sleepIdle", "sleepCool"}
    /\ LET r == WorkerRun(World, e) IN
       Commit(r.W, activeStreams, [workers EXCEPT ![e][w] = r.wk], responses, starts,
              stopped, downloadFaults)

\* a request arrives
Request(r, videoId, method, header, writes) ==
    /\ responses[r].pc = "free"
    /\ LET h == HandleRequest(World, activeStreams, videoId, method, header, writes) IN
       Commit(h.W, activeStreams, workers,
              [responses EXCEPT ![r] = [h.r EXCEPT
                   !.registered = activeStreams[videoId] # NoStream,
                   !.afterStop = stopped[videoId]]],
              starts, stopped, downloadFaults)

\* a worker of the seek burst resumes from its downloadChunk
BurstSubResume(r, i) ==
    /\ responses[r].pc = "burst"
    /\ i \in 1..Len(responses[r].job.subs)
    /\ responses[r].job.subs[i].pc = "fetch"
    /\ CallReady(World, responses[r].job.subs[i].call)
    /\ LET j == SubResume(World, responses[r].job, i, responses[r].videoId,
                          responses[r].fileSize) IN
       Commit(j.W, activeStreams, workers, [responses EXCEPT ![r].job = j.job],
              starts, stopped, downloadFaults)

\* the seek burst is over: the body loop begins
BurstDone(r, writes) ==
    /\ responses[r].pc = "burst"
    /\ JobDone(responses[r].job)
    /\ LET h == RespLoop(World, [responses[r] EXCEPT !.job = NoJob], writes) IN
       Commit(h.W, activeStreams, workers, [responses EXCEPT ![r] = h.r],
              starts, stopped, downloadFaults)

\* the handler resumes from await inFlight.get(cacheKey)
InflightAwaited(r, writes) ==
    /\ responses[r].pc = "awaitInflight"
    /\ CallReady(World, responses[r].call)
    /\ LET h == RespAfterInflight(World, responses[r], writes) IN
       Commit(h.W, activeStreams, workers, [responses EXCEPT ![r] = h.r],
              starts, stopped, downloadFaults)

\* the handler resumes from await downloadChunk(...)
DownloadAwaited(r, writes) ==
    /\ responses[r].pc = "awaitDownload"
    /\ CallReady(World, responses[r].call)
    /\ LET h == RespAfterDownload(World, responses[r], writes) IN
       Commit(h.W, activeStreams, workers, [responses EXCEPT ![r] = h.r],
              starts, stopped, downloadFaults)

\* the 500 ms sleep after a failed read is over
FailSleepDone(r, writes) ==
    /\ responses[r].pc = "sleepFail"
    /\ LET h == RespLoop(World, responses[r], writes) IN
       Commit(h.W, activeStreams, workers, [responses EXCEPT ![r] = h.r],
              starts, stopped, downloadFaults)

\* the drain event arrives (it never does on a destroyed socket)
Drained(r, writes) ==
    /\ responses[r].pc = "drain"
    /\ ~responses[r].destroyed
    /\ LET h == RespLoop(World, [responses[r] EXCEPT !.pressured = FALSE], writes) IN
       Commit(h.W, activeStreams, workers, [responses EXCEPT ![r] = h.r],
              starts, stopped, downloadFaults)

\* the client closes the connection while the handler is suspended
ClientDisconnect(r) ==
    /\ responses[r].pc \notin {"free", "done"}
    /\ ~responses[r].destroyed
    /\ Commit(World, activeStreams, workers, [responses EXCEPT ![r].destroyed = TRUE],
              starts, stopped, downloadFaults)

\* the resumptions of the tasks that every stream specification has
NextTasks ==
    \/ \E s \in 1..MaxStarts, i \in 1..PARALLEL_WORKERS : WarmupSubResume(s, i)
    \/ \E s \in 1..MaxStarts : WarmupDone(s)
    \/ \E f \in DOMAIN fetches : FetchSucceed(f)
    \/ \E e \in 1..MaxStarts, w \in 1..PARALLEL_WORKERS : WorkerFetchDone(e, w)
    \/ \E e \in 1..MaxStarts, w \in 1..PARALLEL_WORKERS : WorkerWake(e, w)
    \/ \E r \in 1..MaxResponses, i \in 1..PARALLEL_WORKERS : BurstSubResume(r, i)

\* writes that never report back-pressure within one run of the body loop
NoBackPressure == TotalChunks(MaxFileSize)

---------------------------------------------------------------------------
(* SpecFetch: the fetcher under contention and failure.  A stream is       *)
(* started, its workers run, a GET arrives (whole file, or a seek into the *)
(* second chunk); download attempts may fail, up to MaxDownloadFaults.     *)

FetchHeaders == {<<>>, RangeHeader(CHUNK_SIZE + 1, -1)}

NextFetch ==
    \/ \E s \in 1..MaxStarts, v \in StreamIds : StartCall(s, v, MaxFileSize)
    \/ NextTasks
    \/ \E f \in DOMAIN fetches : FetchFail(f)
    \/ \E r \in 1..MaxResponses, v \in StreamIds, h \in FetchHeaders :
          Request(r, v, "GET", h, NoBackPressure)
    \/ \E r \in 1..MaxResponses : BurstDone(r, NoBackPressure)
    \/ \E r \in 1..MaxResponses : InflightAwaited(r, NoBackPressure)
    \/ \E r \in 1..MaxResponses : DownloadAwaited(r, NoBackPressure)
    \/ \E r \in 1..MaxResponses : FailSleepDone(r, NoBackPressure)

SpecFetch == InitFetch /\ [][NextFetch]_vars


---------------------------------------------------------------------------
(* SpecOutage: the body loop against a remote that may be out of reach for *)
(* any length of time.  A stream is started, a GET of the whole file      *)
(* arrives, and every download attempt of a fetch the body loop waits for  *)
(* may fail.                                                               *)

NextOutage ==
    \/ \E s \in 1..MaxStarts, v \in StreamIds : StartCall(s, v, MaxFileSize)
    \/ NextTasks
    \/ \E f \in DOMAIN fetches : FetchFailOutage(f)
    \/ \E r \in 1..MaxResponses, v \in StreamIds :
          Request(r, v, "GET", <<>>, NoBackPressure)
    \/ \E r \in 1..MaxResponses : BurstDone(r, NoBackPressure)
    \/ \E r \in 1..MaxResponses : InflightAwaited(r, NoBackPressure)
    \/ \E r \in 1..MaxResponses : DownloadAwaited(r, NoBackPressure)
    \/ \E r \in 1..MaxResponses : FailSleepDone(r, NoBackPressure)

SpecOutage == InitStream /\ [][NextOutage]_vars

---------------------------------------------------------------------------
(* SpecShutdown: destroy() at any moment of a stream's life.  A stream is  *)
(* started and a GET of the whole file arrives, both before destroy() is   *)
(* called (it closes the server, and a later start would connect a pool of *)
(* its own); downloads succeed while there is a client to make them on.    *)

NextShutdown ==
    \/ \E s \in 1..MaxStarts, v \in StreamIds :
          shutdown.pc = "idle" /\ StartCall(s, v, MaxFileSize)
    \/ NextTasks
    \/ \E f \in DOMAIN fetches : FetchFailNoClient(f)
    \/ \E r \in 1..MaxResponses, v \in StreamIds :
          shutdown.pc = "idle" /\ Request(r, v, "GET", <<>>, NoBackPressure)
    \/ \E r \in 1..MaxResponses : BurstDone(r, NoBackPressure)
    \/ \E r \in 1..MaxResponses : InflightAwaited(r, NoBackPressure)
    \/ \E r \in 1..MaxResponses : DownloadAwaited(r, NoBackPressure)
    \/ \E r \in 1..MaxResponses : FailSleepDone(r, NoBackPressure)
    \/ DestroyCall
    \/ DestroyDisconnected

SpecShutdown == InitStream /\ [][NextShutdown]_vars

---------------------------------------------------------------------------
(* SpecStream: the life of a stream.  Start, requests (GET and HEAD, with  *)
(* back-pressure and client disconnects) and stopStream at any moment;     *)
(* downloads succeed.                                                      *)

WriteChoices == {0, NoBackPressure}

NextStream ==
    \/ \E s \in 1..MaxStarts, v \in StreamIds : StartCall(s, v, MaxFileSize)
    \/ NextTasks
    \/ \E v \in StreamIds : StopStream(v)
    \/ \E r \in 1..MaxResponses, v \in StreamIds, m \in {"GET", "HEAD"},
          h \in FetchHeaders, n \in WriteChoices : Request(r, v, m, h, n)
    \/ \E r \in 1..MaxResponses, n \in WriteChoices : BurstDone(r, n)
    \/ \E r \in 1..MaxResponses, n \in WriteChoices : InflightAwaited(r, n)
    \/ \E r \in 1..MaxResponses, n \in WriteChoices : DownloadAwaited(r, n)
    \/ \E r \in 1..MaxResponses, n \in WriteChoices : Drained(r, n)
    \/ \E r \in 1..MaxResponses : ClientDisconnect(r)

SpecStream == InitStream /\ [][NextStream]_vars

---------------------------------------------------------------------------
(* SpecServe: the range server byte by byte.  A stream of any size up to   *)
(* MaxFileSize is started; a GET arrives with no Range header, bytes=S- or *)
(* bytes=S-E for every S and E up to MaxFileSize (past the end included);  *)
(* every write may report back-pressure; download attempts may fail.       *)

ServeHeaders ==
    {<<>>} \cup {RangeHeader(S, -1) : S \in 0..MaxFileSize}
           \cup {RangeHeader(S, E) : S \in 0..MaxFileSize, E \in 0..MaxFileSize}

ServeWrites == 0..NoBackPressure

NextServe ==
    \/ \E s \in 1..MaxStarts, v \in StreamIds, fs \in (MaxFileSize - 1)..MaxFileSize :
          StartCall(s, v, fs)
    \/ NextTasks
    \/ \E r \in 1..MaxResponses, v \in StreamIds, h \in ServeHeaders, n \in ServeWrites :
          Request(r, v, "GET", h, n)
    \/ \E r \in 1..MaxResponses, n \in ServeWrites : BurstDone(r, n)
    \/ \E r \in 1..MaxResponses, n \in ServeWrites : InflightAwaited(r, n)
    \/ \E r \in 1..MaxResponses, n \in ServeWrites : DownloadAwaited(r, n)
    \/ \E r \in 1..MaxResponses, n \in ServeWrites : Drained(r, n)

SpecServe == InitStream /\ [][NextServe]_vars

---------------------------------------------------------------------------
(* SpecRestart: startTelegramStream called again for an id, while an       *)
(* earlier call is in its warm-up or after it has registered the stream,   *)
(* and stopStream at any moment; downloads succeed, no request arrives.    *)

\* the calls of startTelegramStream: one more than the other specifications have
StartSlots == MaxStarts + 1

InitRestart ==
    /\ chunkCache = NewChunkCache(StreamBudget)
    /\ lastOp = NoOp
    /\ PoolReady(CLIENT_POOL_SIZE)
    /\ activeStreams = [v \in StreamIds |-> NoStream]
    /\ engines = <<>>
    /\ workers = <<>>
    /\ inFlight = <<>>
    /\ fetches = <<>>
    /\ responses = [r \in 1..MaxResponses |-> FreeResponse]
    /\ starts = [s \in 1..StartSlots |-> IdleStart]
    /\ stopped = [v \in StreamIds |-> FALSE]
    /\ downloadFaults = 0
    /\ shutdown = NoShutdown

NextRestart ==
    \/ \E s \in 1..StartSlots, v \in StreamIds : StartCall(s, v, MaxFileSize)
    \/ \E s \in 1..StartSlots, i \in 1..PARALLEL_WORKERS : WarmupSubResume(s, i)
    \/ \E s \in 1..StartSlots : WarmupDone(s)
    \/ \E f \in DOMAIN fetches : FetchSucceed(f)
    \/ \E e \in 1..StartSlots, w \in 1..PARALLEL_WORKERS : WorkerFetchDone(e, w)
    \/ \E e \in 1..StartSlots, w \in 1..PARALLEL_WORKERS : WorkerWake(e, w)
    \/ \E v \in StreamIds : StopStream(v)

SpecRestart == InitRestart /\ [][NextRestart]_vars

---------------------------------------------------------------------------
(* SpecLong: playback of a file longer than the look-ahead window, so that *)
(* the cursor can be more than LOOKAHEAD_CHUNKS ahead of playback without  *)
(* being past the end.  A GET of the whole file or of its last chunk       *)
(* arrives; every write may report back-pressure; downloads succeed.       *)

\* a file of LOOKAHEAD_CHUNKS + 2 chunks, the last one short
LongFileSize == (LOOKAHEAD_CHUNKS + 2) * CHUNK_SIZE - 1

LongHeaders == {<<>>, RangeHeader((LOOKAHEAD_CHUNKS + 1) * CHUNK_SIZE, -1)}

LongWrites == {0, TotalChunks(LongFileSize)}

NextLong ==
    \/ \E s \in 1..MaxStarts, v \in StreamIds : StartCall(s, v, LongFileSize)
    \/ NextTasks
    \/ \E r \in 1..MaxResponses, v \in StreamIds, h \in LongHeaders, n \in LongWrites :
          Request(r, v, "GET", h, n)
    \/ \E r \in 1..MaxResponses, n \in LongWrites : BurstDone(r, n)
    \/ \E r \in 1..MaxResponses, n \in LongWrites : InflightAwaited(r, n)
    \/ \E r \in 1..MaxResponses, n \in LongWrites : DownloadAwaited(r, n)
    \/ \E r \in 1..MaxResponses, n \in LongWrites : Drained(r, n)

SpecLong == InitStream /\ [][NextLong]_vars

---------------------------------------------------------------------------
(* SpecDirect: downloadChunk on its own, called for any chunk index of the *)
(* file and for the two past its end, while a stream may be starting and   *)
(* its workers running; two calls may overlap; downloads succeed.          *)

\* the chunk indices of the calls: those of the file and two past its end
DirectIndices == 0..(TotalChunks(MaxFileSize) + 1)

\* downloadChunk(videoId, inputLocation, chunkIndex, fileSize, dcId) up to its await
DirectCall(s, videoId, idx) ==
    /\ starts[s].pc = "idle"
    /\ LET d == DownloadChunk(World, videoId, idx, MaxFileSize) IN
       Commit(d.W, activeStreams, workers, responses,
              [starts EXCEPT ![s] =
                  [pc |-> "direct", videoId |-> videoId, fileSize |-> MaxFileSize,
                   job |-> [NoJob EXCEPT !.asked = <<idx>>,
                                         !.subs = <<[pc |-> "fetch", idx |-> idx,
                                                     call |-> d.call]>>]]],
              stopped, downloadFaults)

\* the call resumes from its await (the finally runs) and returns what the
\* promise yielded: kept, as it came, in results
DirectReturn(s) ==
    /\ starts[s].pc = "direct"
    /\ CallReady(World, starts[s].job.subs[1].call)
    /\ Commit(CallFinish(World, starts[s].job.subs[1].call), activeStreams, workers,
              responses,
              [starts EXCEPT ![s].pc = "returned",
                             ![s].job.subs = <<>>,
                             ![s].job.results =
                                 With(<<>>, starts[s].job.subs[1].idx,
                                      CallResult(World, starts[s].job.subs[1].call))],
              stopped, downloadFaults)

NextDirect ==
    \/ \E s \in 1..StartSlots, v \in StreamIds : StartCall(s, v, MaxFileSize)
    \/ \E s \in 1..StartSlots, i \in 1..PARALLEL_WORKERS : WarmupSubResume(s, i)
    \/ \E s \in 1..StartSlots : WarmupDone(s)
    \/ \E f \in DOMAIN fetches : FetchSucceed(f)
    \/ \E e \in 1..StartSlots, w \in 1..PARALLEL_WORKERS : WorkerFetchDone(e, w)
    \/ \E e \in 1..StartSlots, w \in 1..PARALLEL_WORKERS : WorkerWake(e, w)
    \/ \E s \in 1..StartSlots, v \in StreamIds, idx \in DirectIndices : DirectCall(s, v, idx)
    \/ \E s \in 1..StartSlots : DirectReturn(s)

SpecDirect == InitRestart /\ [][NextDirect]_vars

---------------------------------------------------------------------------
(* SpecProgress: the workers on their own between requests.  The cache     *)
(* holds the whole file, downloads succeed, and two requests arrive, each  *)
(* for one byte: a seek ahead and a read inside the look-ahead window      *)
(* behind it.  No write reports back-pressure, and the one chunk a request *)
(* reads is cached or in its seek burst, so the body loop awaits no fetch. *)

\* a file of 2 * LOOKAHEAD_CHUNKS + 2 chunks
ProgressFileSize == (2 * LOOKAHEAD_CHUNKS + 2) * CHUNK_SIZE

\* the requests: the first byte of chunk 2 * LOOKAHEAD_CHUNKS, and of chunk
\* LOOKAHEAD_CHUNKS
ProgressHeaders ==
    {RangeHeader(2 * LOOKAHEAD_CHUNKS * CHUNK_SIZE, 2 * LOOKAHEAD_CHUNKS * CHUNK_SIZE),
     RangeHeader(LOOKAHEAD_CHUNKS * CHUNK_SIZE, LOOKAHEAD_CHUNKS * CHUNK_SIZE)}

\* the requests of the run: one more than the other specifications have
ResponseSlots == MaxResponses + 1

InitProgress ==
    /\ chunkCache = NewChunkCache(ProgressFileSize)
    /\ lastOp = NoOp
    /\ PoolReady(CLIENT_POOL_SIZE)
    /\ activeStreams = [v \in StreamIds |-> NoStream]
    /\ engines = <<>>
    /\ workers = <<>>
    /\ inFlight = <<>>
    /\ fetches = <<>>
    /\ responses = [r \in 1..ResponseSlots |-> FreeResponse]
    /\ starts = [s \in 1..MaxStarts |-> IdleStart]
    /\ stopped = [v \in StreamIds |-> FALSE]
    /\ downloadFaults = 0
    /\ shutdown = NoShutdown

NextProgress ==
    \/ \E s \in 1..MaxStarts, v \in StreamIds : StartCall(s, v, ProgressFileSize)
    \/ \E s \in 1..MaxStarts, i \in 1..PARALLEL_WORKERS : WarmupSubResume(s, i)
    \/ \E s \in 1..MaxStarts : WarmupDone(s)
    \/ \E f \in DOMAIN fetches : FetchSucceed(f)
    \/ \E e \in 1..MaxStarts, w \in 1..PARALLEL_WORKERS : WorkerFetchDone(e, w)
    \/ \E e \in 1..MaxStarts, w \in 1..PARALLEL_WORKERS : WorkerWake(e, w)
    \/ \E r \in 1..ResponseSlots, v \in StreamIds, h \in ProgressHeaders :
          Request(r, v, "GET", h, TotalChunks(ProgressFileSize))
    \/ \E r \in 1..ResponseSlots, i \in 1..PARALLEL_WORKERS : BurstSubResume(r, i)
    \/ \E r \in 1..ResponseSlots : BurstDone(r, TotalChunks(ProgressFileSize))

SpecProgress == InitProgress /\ [][NextProgress]_vars

---------------------------------------------------------------------------
(* SpecReconnect: fetches on a pool one of whose clients has dropped.  The  *)
(* transport of a client drops at any moment (MaxFaults times); a stream   *)
(* of LOOKAHEAD_CHUNKS + 2 chunks is started, so that chunk 0 and the last *)
(* chunk, fetched side by side by the warm-up, fall on the same client;    *)
(* an attempt on a disconnected client first awaits c.connect().           *)

NextReconnect ==
    \/ \E s \in 1..MaxStarts, v \in StreamIds : StartCall(s, v, LongFileSize)
    \/ \E s \in 1..MaxStarts, i \in 1..PARALLEL_WORKERS : WarmupSubResume(s, i)
    \/ \E s \in 1..MaxStarts : WarmupDone(s)
    \/ \E e \in 1..MaxStarts, w \in 1..PARALLEL_WORKERS : WorkerFetchDone(e, w)
    \/ \E e \in 1..MaxStarts, w \in 1..PARALLEL_WORKERS : WorkerWake(e, w)
    \/ \E i \in 1..CLIENT_POOL_SIZE : Disconnect(i)
    \/ \E f \in DOMAIN fetches : ReconnectDone(f)
    \/ \E f \in DOMAIN fetches : FetchSucceedConnected(f)

SpecReconnect == InitStream /\ [][NextReconnect]_vars


---------------------------------------------------------------------------
(* The cache on its own: every operation of the class.                     *)

InitCache ==
    /\ chunkCache = NewChunkCache(CacheBudget)
    /\ lastOp = NoOp
    /\ PoolUnused
    /\ StreamUnused

OpSet(key, buf) ==
    /\ UNCHANGED <<poolVars, streamVars>>
    /\ chunkCache' = CacheSet(chunkCache, key, buf)
    /\ lastOp' = [op |-> "set", key |-> key, buf |-> buf, ret |-> Null,
                  before |-> chunkCache.map]

OpGet(key) ==
    /\ UNCHANGED <<poolVars, streamVars>>
    /\ chunkCache' = CacheGet(chunkCache, key)
    /\ lastOp' = [op |-> "get", key |-> key, buf |-> <<>>,
                  ret |-> CacheGetResult(chunkCache, key),
                  before |-> chunkCache.map]

OpHas(key) ==
    /\ UNCHANGED <<poolVars, streamVars>>
    /\ chunkCache' = CacheAfterHas(chunkCache, key)
    /\ lastOp' = [op |-> "has", key |-> key, buf |-> <<>>,
                  ret |-> IF CacheHas(chunkCache, key) THEN <<1>> ELSE <<0>>,
                  before |-> chunkCache.map]

OpDeletePrefix(videoId) ==
    /\ UNCHANGED <<poolVars, streamVars>>
    /\ chunkCache' = CacheDeletePrefix(chunkCache, videoId \o <<":">>)
    /\ lastOp' = [op |-> "deletePrefix", key |-> videoId, buf |-> <<>>, ret |-> Null,
                  before |-> chunkCache.map]

OpClear ==
    /\ UNCHANGED <<poolVars, streamVars>>
    /\ chunkCache' = CacheClear(chunkCache)
    /\ lastOp' = [op |-> "clear", key |-> <<>>, buf |-> <<>>, ret |-> Null,
                  before |-> chunkCache.map]

NextCache ==
    \/ \E key \in CacheKeys, buf \in CacheBufs : OpSet(key, buf)
    \/ \E key \in CacheKeys : OpGet(key)
    \/ \E key \in CacheKeys : OpHas(key)
    \/ \E v \in VideoIds : OpDeletePrefix(v)
    \/ OpClear

SpecCache == InitCache /\ [][NextCache]_vars

---------------------------------------------------------------------------
(* The session pool on its own *)

InitPool ==
    /\ CacheUnused
    /\ StreamUnused
    /\ clientPool = <<>>
    /\ sessionFile \in {"none", "valid", "stale"}
    /\ ensureTask = [t \in 1..MaxCalls |-> IdleTask]
    /\ authCount = 0
    /\ floodCount = 0
    /\ faults = 0

NextPool ==
    \/ \E t \in 1..MaxCalls : EnsureCall(t)
    \/ \E t \in 1..MaxCalls : TestConnectDone(t)
    \/ \E t \in 1..MaxCalls : TestGetMeDone(t)
    \/ \E t \in 1..MaxCalls : AuthDone(t)
    \/ \E t \in 1..MaxCalls : FloodWaitDone(t)
    \/ \E t \in 1..MaxCalls : ClonesDone(t)
    \/ \E i \in 1..(CLIENT_POOL_SIZE + MaxCalls) : Disconnect(i)

SpecPool == InitPool /\ [][NextPool]_vars

\* C5: when no rate-limit occurs the pool performs at most one authentication
\* exchange in a process run, over any interleaving of ensure_pool calls:
\* none when a valid persisted credential exists. (Transport failures, which
\* the code also answers with a fresh authentication, are left out of the
\* statement.)
C5_AuthOnce == (floodCount = 0 /\ faults = 0) => authCount <= 1

---------------------------------------------------------------------------
(* Claims about the cache, checked under SpecCache *)

\* C3: after every cache operation used_bytes <= max_bytes.
C3_BudgetRespected == chunkCache.usedBytes <= chunkCache.maxBytes

\* the entries of the cache before the last set, without the key that was set
BeforeWithoutKey == MapDelete(lastOp.before, lastOp.key)

\* how many of them the last set evicted
EvictedCount == Len(BeforeWithoutKey) + 1 - Len(chunkCache.map)

\* C4: pure LRU driven by bytes. A set evicts a prefix of the recency order
\* (least recent first), no entry more than needed for the new one to fit, and
\* stores the new entry as most recent; a get of a present key returns its bytes
\* and moves it to the most-recent end, leaving the order of the others; a get
\* of an absent key and a has change nothing.
C4_PureLru ==
    /\ lastOp.op = "set" =>
          /\ EvictedCount \in 0..Len(BeforeWithoutKey)
          /\ chunkCache.map =
                SubSeq(BeforeWithoutKey, EvictedCount + 1, Len(BeforeWithoutKey))
                  \o <<[key |-> lastOp.key, buf |-> lastOp.buf]>>
          /\ EvictedCount > 0 =>
                SumBytes(SubSeq(BeforeWithoutKey, EvictedCount, Len(BeforeWithoutKey)))
                  + Len(lastOp.buf) > chunkCache.maxBytes
    /\ (lastOp.op = "get" /\ MapHas(lastOp.before, lastOp.key)) =>
          /\ lastOp.ret = MapGet(lastOp.before, lastOp.key)
          /\ chunkCache.map =
                MapDelete(lastOp.before, lastOp.key)
                  \o <<[key |-> lastOp.key, buf |-> lastOp.ret]>>
    /\ (lastOp.op = "get" /\ ~MapHas(lastOp.before, lastOp.key)) =>
          /\ IsNull(lastOp.ret)
          /\ chunkCache.map = lastOp.before

\* a set under pressure evicted the least recent entry and kept a more recent one,
\* and that survivor had been promoted by an earlier get or re-insert
C4_Witness ==
    /\ lastOp.op = "set"
    /\ EvictedCount = 1
    /\ Len(chunkCache.map) = 2
    /\ ~MapHas(lastOp.before, lastOp.key)

---------------------------------------------------------------------------
(* Properties of the fetcher (SpecFetch) *)

\* C1 as stated: at every suspension point no key is both in the chunk cache and
\* in the in-flight registry.
C1_NeverCachedAndInFlight ==
    \A k \in DOMAIN inFlight : ~CacheHas(chunkCache, k)

\* C1 as amended: no key is cached while its registered fetch is still pending; a
\* key is both cached and registered only after the registered fetch has settled,
\* until the caller that registered it resumes and removes the entry.
C1_CachedOnlyOnceSettled ==
    \A k \in DOMAIN inFlight :
        /\ fetches[inFlight[k]].key = k
        /\ CacheHas(chunkCache, k) => fetches[inFlight[k]].done

\* the window: a fetch has inserted its chunk and its registration is still there
C1_Witness ==
    \E k \in DOMAIN inFlight :
        /\ CacheHas(chunkCache, k)
        /\ fetches[inFlight[k]].done
        /\ ~IsNull(fetches[inFlight[k]].result)

\* the calls of downloadChunk (and the handler's await of a registered promise)
\* that are suspended on a promise
AwaitingCalls ==
        {workers[e][w].call : e \in 1..Len(workers), w \in 1..PARALLEL_WORKERS}
          \cup {responses[r].call : r \in 1..Len(responses)}
          \cup UNION {{responses[r].job.subs[i].call : i \in 1..Len(responses[r].job.subs)} :
                        r \in 1..Len(responses)}
          \cup UNION {{starts[t].job.subs[i].call : i \in 1..Len(starts[t].job.subs)} :
                        t \in 1..Len(starts)}

PromisedCalls == {c \in AwaitingCalls : c.kind \in {"piggy", "owner"}}

\* at most one fetch per key is outstanding, it is the one the registry names
\* for its key, and every call whose promise is unsettled awaits that very fetch
OneFetchPerKey ==
    /\ \A f, g \in DOMAIN fetches :
           (fetches[f].key = fetches[g].key /\ ~fetches[f].done /\ ~fetches[g].done)
               => f = g
    /\ \A f \in DOMAIN fetches :
           ~fetches[f].done =>
               /\ fetches[f].key \in DOMAIN inFlight
               /\ inFlight[fetches[f].key] = f
    /\ \A c \in PromisedCalls :
           /\ c.fetch \in DOMAIN fetches
           /\ fetches[c.fetch].key = c.key
           /\ ~fetches[c.fetch].done =>
                  (c.key \in DOMAIN inFlight /\ inFlight[c.key] = c.fetch)

\* C2: fetches of one key coalesce.  In every state at most one fetch per key is
\* outstanding and the calls suspended on that key await it (none has a fetch of
\* its own); and a settled fetch keeps its result for as long as a caller holds
\* it, so all its callers receive the same bytes or the same null.
C2_Coalesced ==
    [][/\ OneFetchPerKey'
       /\ \A f \in DOMAIN fetches :
              fetches[f].done => (f \in DOMAIN fetches' => fetches'[f] = fetches[f])
       /\ \A f \in DOMAIN fetches' :
              (f \in DOMAIN fetches /\ ~fetches[f].done) =>
                  fetches'[f].key = fetches[f].key]_vars

\* an outstanding fetch with its starter and a caller that piggy-backs on it
C2_Witness ==
    \E c, d \in PromisedCalls :
        /\ c.kind = "owner" /\ d.kind = "piggy"
        /\ c.fetch = d.fetch
        /\ ~fetches[c.fetch].done
        /\ fetches[c.fetch].attempt > 1

---------------------------------------------------------------------------
(* Properties of the life of a stream (SpecStream).  stopped[v] holds from *)
(* a stopStream(v) until a startTelegramStream of v begins or registers v. *)

\* the cache keys of stream v
KeysOf(v) == {k \in MapKeys(chunkCache.map) : StartsWith(k, v \o <<":">>)}

\* the engines built for stream v
EnginesOf(v) == {e \in 1..Len(engines) : engines[e].videoId = v}

\* a startTelegramStream of v is under way
Starting(v) == \E t \in 1..Len(starts) : starts[t].pc = "warmup" /\ starts[t].videoId = v

\* C6: after stopStream(s) has returned the cache holds no entry of s in any
\* later state, until s is started again (no start of s under way either).
C6_NoEntryAfterStop ==
    \A v \in StreamIds : (stopped[v] /\ ~Starting(v)) => KeysOf(v) = {}

\* C7 as stated: when stopStream(s) has returned every prefetch worker of s has
\* terminated, none is suspended in a fetch or a sleep.
C7_WorkersTerminated ==
    \A v \in StreamIds :
        stopped[v] => \A e \in EnginesOf(v), w \in 1..PARALLEL_WORKERS :
                          workers[e][w].pc = "done"

\* C7 as amended: stopStream(s) leaves the engine of s with running = false, for
\* good; from then on a worker of that engine reserves no index and starts no
\* fetch: its next step ends it, except that a worker whose fetch returns under
\* an unchanged seek generation sleeps once more and ends when it wakes.
C7_StoppedWorkersOnlyExit ==
    [][/\ \A v \in StreamIds :
              (activeStreams[v] # NoStream /\ activeStreams'[v] = NoStream)
                  => ~engines'[activeStreams[v].downloader].running
       /\ \A e \in 1..Len(engines) :
              ~engines[e].running =>
                  /\ ~engines'[e].running
                  /\ \A w \in 1..PARALLEL_WORKERS :
                         workers'[e][w] # workers[e][w] =>
                             \/ workers'[e][w].pc = "done"
                             \/ /\ workers[e][w].pc = "fetch"
                                /\ workers'[e][w].pc = "sleepCool"]_vars

\* stopStream has returned and a worker of the stopped engine is still suspended
\* in a fetch, another in a sleep
C7_Witness ==
    \E v \in StreamIds, e \in 1..Len(engines) :
        /\ stopped[v]
        /\ engines[e].videoId = v
        /\ ~engines[e].running
        /\ \E w1, w2 \in 1..PARALLEL_WORKERS :
               /\ workers[e][w1].pc = "fetch"
               /\ workers[e][w2].pc \in {"sleepIdle", "sleepCool"}

---------------------------------------------------------------------------
(* Properties of the range server (SpecServe) *)

\* the responses to a GET on a registered stream
Served == {r \in 1..MaxResponses : responses[r].pc # "free" /\ responses[r].registered
                                     /\ responses[r].method = "GET"}

\* the response has run to res.end() with its socket open and no abort
Completed(r) ==
    responses[r].pc = "done" /\ ~responses[r].aborted /\ ~responses[r].destroyed

\* C8: for a valid Range bytes=S-E (0 <= S <= E < fileSize) on a registered
\* stream the body written so far is, at every step, exactly bytes S..bytePos-1
\* of the stream; bytePos only increases, and each resumption of the body loop
\* appends the bytes bytePos..bytePos'-1; the loop ends with bytePos = E + 1,
\* so the body is bytes S..E and E - S + 1 long.
C8_BodyIsRange ==
    [][\A r \in 1..MaxResponses, S \in 0..MaxFileSize, E \in 0..MaxFileSize :
           (/\ responses'[r].pc # "free" /\ responses'[r].registered
            /\ responses'[r].method = "GET"
            /\ responses'[r].header = RangeHeader(S, E)
            /\ S <= E /\ E < responses'[r].fileSize) =>
               /\ responses'[r].bytePos \in S..(E + 1)
               /\ responses'[r].body =
                      StreamBytes(responses'[r].videoId, S, responses'[r].bytePos - 1)
               /\ responses[r].pc # "free" =>
                      /\ responses'[r].bytePos >= responses[r].bytePos
                      /\ responses'[r].body =
                             responses[r].body \o
                                 StreamBytes(responses[r].videoId, responses[r].bytePos,
                                             responses'[r].bytePos - 1)
               /\ (/\ responses'[r].pc = "done" /\ ~responses'[r].aborted
                   /\ ~responses'[r].destroyed) =>
                      /\ responses'[r].bytePos = E + 1
                      /\ Len(responses'[r].body) = E - S + 1
                      /\ responses'[r].body = StreamBytes(responses'[r].videoId, S, E)]_vars

\* a range that starts inside one chunk and ends inside a later one has been
\* served in full
C8_Witness ==
    \E r \in Served, S \in 0..MaxFileSize, E \in 0..MaxFileSize :
        /\ responses[r].header = RangeHeader(S, E)
        /\ S % CHUNK_SIZE # 0 /\ (E + 1) % CHUNK_SIZE # 0
        /\ E \div CHUNK_SIZE > S \div CHUNK_SIZE
        /\ E < responses[r].fileSize
        /\ Completed(r)
        /\ responses[r].body = StreamBytes(responses[r].videoId, S, E)

\* C9: a GET with Range bytes=S- or bytes=S-E on a registered stream is answered
\* 206 with E = fileSize - 1 when absent or larger, Content-Range
\* bytes S-E/fileSize and Content-Length E - S + 1; a GET without Range is
\* answered 200 with Content-Length fileSize and, once complete, the whole
\* stream as body.
C9_RangeHeaders ==
    \A r \in Served :
        /\ \A S \in 0..MaxFileSize, E \in (-1)..MaxFileSize :
               responses[r].header = RangeHeader(S, E) =>
                   LET fs == responses[r].fileSize
                       last == IF E < 0 \/ E > fs - 1 THEN fs - 1 ELSE E
                   IN  /\ responses[r].status = 206
                       /\ responses[r].rangeStart = S
                       /\ responses[r].rangeEnd = last
                       /\ responses[r].contentLength = last - S + 1
                       /\ responses[r].contentRange =
                              ContentRange(S, last, fs)
        /\ responses[r].header = <<>> =>
               /\ responses[r].status = 200
               /\ responses[r].contentLength = responses[r].fileSize
               /\ Completed(r) =>
                      responses[r].body =
                          StreamBytes(responses[r].videoId, 0, responses[r].fileSize - 1)

\* an end past the file has been clamped
C9_Witness ==
    \E r \in Served :
        /\ responses[r].header = RangeHeader(1, responses[r].fileSize)
        /\ responses[r].status = 206
        /\ responses[r].rangeEnd = responses[r].fileSize - 1
        /\ responses[r].contentLength = responses[r].fileSize - 1
        /\ Completed(r)

---------------------------------------------------------------------------
(* Properties of the seek burst (SpecFetch) *)

\* the elements of a tuple
Elems(seq) == {seq[i] : i \in 1..Len(seq)}

\* the indices of the burst window of a range starting in chunk first that the
\* cache does not hold
UncachedWindow(videoId, first, fileSize) ==
    {i \in first..(Min(first + SEEK_PREBUF_CHUNKS, TotalChunks(fileSize)) - 1) :
        ~CacheHas(chunkCache, CacheKey(videoId, i))}

\* C11: a GET whose first chunk is not cached on arrival calls seekTo(firstChunk)
\* on the stream's engine and writes nothing until downloadChunk has returned,
\* with the chunk's bytes or null, for every uncached index of
\* [firstChunk, min(firstChunk + SEEK_PREBUF_CHUNKS, totalChunks)); a GET whose
\* first chunk is cached calls no seekTo and runs no burst.
C11_SeekBurstFirst ==
    [][\A r \in 1..MaxResponses :
           LET first == responses'[r].rangeStart \div CHUNK_SIZE
               v == responses'[r].videoId
               window == UncachedWindow(v, first, responses'[r].fileSize)
           IN  /\ (/\ responses[r].pc = "free" /\ responses'[r].pc # "free"
                   /\ responses'[r].registered /\ responses'[r].method = "GET") =>
                      IF ~CacheHas(chunkCache, CacheKey(v, first))
                      THEN /\ responses'[r].seeked
                           /\ engines'[responses'[r].engine] =
                                  SeekTo(engines[responses'[r].engine], first)
                           /\ responses'[r].body = <<>>
                           /\ IF window # {}
                              THEN /\ responses'[r].pc = "burst"
                                   /\ Elems(responses'[r].job.asked) = window
                              ELSE responses'[r].pc = "done"
                      ELSE /\ ~responses'[r].seeked
                           /\ responses'[r].pc # "burst"
                           /\ responses'[r].job = NoJob
               /\ responses[r].pc = "burst" =>
                      /\ responses[r].body = <<>>
                      /\ responses'[r].pc = "burst" => responses'[r].body = <<>>
                      /\ responses'[r].pc # "burst" =>
                             /\ JobDone(responses[r].job)
                             /\ DOMAIN responses[r].job.results =
                                    Elems(responses[r].job.asked)
                             /\ \A i \in DOMAIN responses[r].job.results :
                                    responses[r].job.results[i] \in
                                        {Null, RemoteChunk(v, i, responses[r].fileSize)}
               /\ responses[r].pc # "free" =>
                      responses'[r].seeked = responses[r].seeked]_vars

\* a burst of two indices has ended, the body not yet begun
C11_Witness ==
    \E r \in 1..MaxResponses :
        /\ responses[r].pc = "burst"
        /\ responses[r].seeked
        /\ responses[r].body = <<>>
        /\ JobDone(responses[r].job)
        /\ Len(responses[r].job.asked) >= 2
        /\ DOMAIN responses[r].job.results = Elems(responses[r].job.asked)

---------------------------------------------------------------------------
(* Properties of the prefetch engine (SpecServe) *)

\* C12: whatever start, notifyPlayback, seekTo (also to an index at or beyond
\* totalChunks) and the workers have done, a worker that is fetching fetches an
\* index of [0, totalChunks) of its engine's stream.
C12_FetchInsideFile ==
    \A e \in 1..Len(workers), w \in 1..PARALLEL_WORKERS :
        workers[e][w].pc = "fetch" =>
            /\ workers[e][w].idx \in 0..(engines[e].totalChunks - 1)
            /\ workers[e][w].call.kind \in {"hit", "piggy", "owner"}
            /\ workers[e][w].call.key = CacheKey(engines[e].videoId, workers[e][w].idx)

\* a seek to the end of the file or beyond has left the cursor there, and a worker
\* that looked for work since then has found none
C12_Witness ==
    \E r \in 1..MaxResponses, w \in 1..PARALLEL_WORKERS :
        /\ responses[r].seeked
        /\ responses[r].rangeStart \div CHUNK_SIZE >= TotalChunks(responses[r].fileSize)
        /\ engines[responses[r].engine].cursor >= engines[responses[r].engine].totalChunks
        /\ engines[responses[r].engine].playbackChunk
               >= engines[responses[r].engine].totalChunks
        /\ workers[responses[r].engine][w].pc = "sleepIdle"

\* seekTo is called on engine e in this step (by a request that arrives)
SeekToCalled(e) ==
    \E r \in 1..MaxResponses :
        /\ responses[r].pc = "free"
        /\ responses'[r].seeked
        /\ responses'[r].engine = e

\* C13 as stated: between two consecutive seekTo calls the cursor only advances.
C13_CursorOnlyAdvances ==
    [][\A e \in 1..Len(engines) :
           engines'[e].cursor >= engines[e].cursor \/ SeekToCalled(e)]_vars

\* C13 as amended: the cursor only advances while the seek generation stays the
\* same; the generation only grows, and it grows when seekTo(x) sets the cursor
\* (and the playback position) to exactly x, or when a notifyPlayback(c) of a
\* response that finds the cursor at the end of the file or more than
\* LOOKAHEAD_CHUNKS past c sets the cursor back to c.
C13_CursorAdvancesBetweenRepositions ==
    [][\A e \in 1..Len(engines) :
           /\ engines'[e].seekGeneration >= engines[e].seekGeneration
           /\ engines'[e].seekGeneration = engines[e].seekGeneration
                  => engines'[e].cursor >= engines[e].cursor
           /\ engines'[e].seekGeneration > engines[e].seekGeneration =>
                  \E r \in 1..MaxResponses :
                      /\ responses'[r] # responses[r]
                      /\ responses'[r].engine = e
                      /\ engines'[e].cursor >= responses'[r].rangeStart \div CHUNK_SIZE
                      /\ engines'[e].cursor <= engines'[e].playbackChunk
           /\ \A r \in 1..MaxResponses :
                  (responses[r].pc = "free" /\ responses'[r].seeked
                   /\ responses'[r].engine = e) =>
                      engines'[e] = SeekTo(engines[e], responses'[r].rangeStart \div CHUNK_SIZE)
      ]_vars

\* a response that called no seekTo has repositioned the cursor of its engine
C13_Witness ==
    \E r \in 1..MaxResponses :
        /\ responses[r].pc # "free" /\ responses[r].registered
        /\ responses[r].method = "GET"
        /\ ~responses[r].seeked
        /\ engines[responses[r].engine].seekGeneration > 0
        /\ engines[responses[r].engine].cursor < engines[responses[r].engine].totalChunks

\* C14 as stated: no two reservations returned by _getNextChunk of one engine
\* are the same index.
C14_NoIndexReservedTwice ==
    \A e \in 1..Len(engines) : engines[e].again = {}

\* C14 as amended: at no time do two workers of one engine fetch the same index,
\* and a reservation returns an index at or after the cursor and leaves the
\* cursor behind it, under an unchanged seek generation: between two
\* repositionings of the cursor the indices reserved strictly increase.
C14_ReservationsDistinct ==
    [][/\ \A e \in 1..Len(workers'), w1, w2 \in 1..PARALLEL_WORKERS :
              (/\ w1 # w2
               /\ workers'[e][w1].pc = "fetch"
               /\ workers'[e][w2].pc = "fetch")
                  => workers'[e][w1].idx # workers'[e][w2].idx
       /\ \A e \in 1..Len(engines) :
              \/ /\ engines'[e].reserved = engines[e].reserved
                 /\ engines'[e].again = engines[e].again
              \/ /\ engines'[e].seekGeneration = engines[e].seekGeneration
                 /\ \E w \in 1..PARALLEL_WORKERS :
                        /\ workers'[e][w].pc = "fetch"
                        /\ workers'[e][w].idx >= engines[e].cursor
                        /\ engines'[e].cursor = workers'[e][w].idx + 1
                        /\ engines'[e].reserved =
                               engines[e].reserved \cup {workers'[e][w].idx}]_vars

\* an index reserved in an earlier seek generation is reserved again and fetched
\* while another worker of the engine fetches another index
C14_Witness ==
    \E e \in 1..Len(engines), w1, w2 \in 1..PARALLEL_WORKERS :
        /\ workers[e][w1].pc = "fetch"
        /\ workers[e][w1].idx \in engines[e].again
        /\ workers[e][w2].pc = "fetch"
        /\ workers[e][w2].idx # workers[e][w1].idx

\* the registering caller of every in-flight entry is still suspended in its
\* downloadChunk, whose finally removes the entry when it resumes
OwnerSuspended ==
    \A k \in DOMAIN inFlight :
        \E c \in AwaitingCalls : c.kind = "owner" /\ c.key = k /\ c.fetch = inFlight[k]

\* the promise a suspended call awaits is unsettled while a download attempt is
\* under way, which is one of at most MAX_RETRIES and can return
AttemptUnderWay(call) ==
    /\ call.kind \in {"piggy", "owner"}
    /\ call.fetch \in DOMAIN fetches
    /\ ~fetches[call.fetch].done
    /\ fetches[call.fetch].attempt \in 1..MAX_RETRIES

\* every task suspended on a fetch (prefetch worker, warm-up, seek burst, body
\* loop) has an attempt under way, or its promise has settled and it resumes
AwaitersResume ==
    \A c \in PromisedCalls :
        \/ AttemptUnderWay(c)
        \/ c.fetch \in DOMAIN fetches /\ CallReady(World, c)

\* C15: the in-flight entry of a fetch that finished (with bytes, with no bytes or
\* with null) is removed by the finally of the call that registered it: that call
\* is suspended for as long as the entry exists, and the step in which it resumes
\* removes the entry.  Every return of a download attempt settles the fetch or
\* starts the next of at most MAX_RETRIES attempts, and every task that awaits a
\* fetch (prefetch worker, warm-up, seek burst, body loop) has an attempt under
\* way or can resume: when every attempt returns, every entry is removed and every
\* awaiting task resumes.
C15_InFlightRemoved ==
    [][/\ OwnerSuspended'
       /\ AwaitersResume'
       /\ \A f \in DOMAIN fetches :
              ~fetches[f].done =>
                  /\ f \in DOMAIN fetches'
                  /\ \/ fetches'[f] = fetches[f]
                     \/ fetches'[f].done
                     \/ fetches'[f].attempt = fetches[f].attempt + 1
       /\ \A k \in DOMAIN inFlight :
              (\E c \in AwaitingCalls : c.kind = "owner" /\ c.key = k /\ c.fetch = inFlight[k])
                /\ ~(\E c \in AwaitingCalls' :
                        c.kind = "owner" /\ c.key = k /\ c.fetch = inFlight[k])
                  => (k \notin DOMAIN inFlight' \/ inFlight'[k] # inFlight[k]
                        \/ ~fetches[inFlight[k]].done)]_vars

\* a fetch has returned null after MAX_RETRIES attempts, or its bytes, and its
\* entry is still registered: the registering caller has yet to resume
C15_Witness ==
    \E k \in DOMAIN inFlight, l \in DOMAIN inFlight :
        /\ fetches[inFlight[k]].done /\ IsNull(fetches[inFlight[k]].result)
        /\ fetches[inFlight[l]].done /\ ~IsNull(fetches[inFlight[l]].result)
        /\ \E c \in PromisedCalls : c.kind = "piggy" /\ c.fetch = inFlight[k]

\* the slot getClient yields for attempt a of chunk idx: index
\* (idx + a - 1) mod pool size, counted from 1
SessionOfAttempt(idx, a) == ((idx + a - 1) % Len(clientPool)) + 1

\* C16: one fetch makes at most MAX_RETRIES attempts, attempt a on the pool
\* session at index (chunk index + a - 1) mod pool size; an attempt that returns
\* bytes ends the fetch, which inserts them into the cache and returns them; a
\* failed attempt inserts nothing and is followed by the next one, and the fetch
\* returns null when (and only when) attempt MAX_RETRIES has failed too.
C16_RetryRotation ==
    [][\A f \in DOMAIN fetches :
          ~fetches[f].done =>
              /\ fetches[f].attempt \in 1..MAX_RETRIES
              /\ fetches[f].client = SessionOfAttempt(fetches[f].idx, fetches[f].attempt)
              /\ \/ fetches'[f] = fetches[f]
                 \/ /\ fetches'[f].done
                    /\ fetches'[f].attempt = fetches[f].attempt
                    /\ fetches'[f].result =
                           RemoteChunk(fetches[f].videoId, fetches[f].idx, fetches[f].fileSize)
                    /\ Len(fetches'[f].result) > 0
                    /\ CacheGetResult(chunkCache', fetches[f].key) = fetches'[f].result
                 \/ /\ fetches'[f].done
                    /\ fetches[f].attempt = MAX_RETRIES
                    /\ IsNull(fetches'[f].result)
                    /\ chunkCache' = chunkCache
                 \/ /\ ~fetches'[f].done
                    /\ fetches[f].attempt < MAX_RETRIES
                    /\ fetches'[f].attempt = fetches[f].attempt + 1
                    /\ chunkCache' = chunkCache]_vars

\* over a pool of two sessions the four attempts of chunk 1 have failed, the last
\* on the first session again, and the fetch has returned null
C16_Witness ==
    \E f \in DOMAIN fetches :
        /\ fetches[f].done /\ IsNull(fetches[f].result)
        /\ fetches[f].attempt = MAX_RETRIES
        /\ fetches[f].idx = 1
        /\ Len(clientPool) = 2
        /\ fetches[f].client = 1
        /\ ~CacheHas(chunkCache, fetches[f].key)

\* the read the body loop of response r completes in this step has failed: the
\* awaited inline fetch yielded null or no bytes
ReadFailed(r) ==
    /\ responses[r].pc = "awaitDownload"
    /\ responses'[r].pc # "awaitDownload" \/ responses'[r].call # responses[r].call
    /\ LET buf == CallResult(World, responses[r].call) IN IsNull(buf) \/ Len(buf) = 0

\* the body loop of response r runs in this step and its read has succeeded
ReadSucceeded(r) ==
    /\ responses[r].pc \in {"awaitDownload", "awaitInflight"}
    /\ responses'[r] # responses[r]
    /\ LET buf == CallResult(World, responses[r].call) IN ~IsNull(buf) /\ Len(buf) > 0

\* C17: in the body loop a failed read leaves bytePos (and the body) unchanged and
\* increments consecutiveFailures; a successful read (of the cache, of a fetch in
\* flight or of an inline fetch) writes and resets it to 0; the counter changes
\* in no other way; the loop is left before the end of the
\* range, the socket being intact, exactly when the counter has reached
\* MAX_CONSECUTIVE_FAILURES, and nothing is written afterwards.
C17_FailureCounter ==
    [][\A r \in 1..MaxResponses :
          /\ ReadFailed(r) =>
                 /\ responses'[r].bytePos = responses[r].bytePos
                 /\ responses'[r].body = responses[r].body
                 /\ responses'[r].consecutiveFailures = responses[r].consecutiveFailures + 1
          /\ ReadSucceeded(r) =>
                 /\ responses'[r].bytePos > responses[r].bytePos
                 /\ responses'[r].consecutiveFailures = 0
          /\ (responses[r].pc # "free" /\ responses'[r].bytePos > responses[r].bytePos) =>
                 responses'[r].consecutiveFailures = 0
          /\ (responses[r].pc # "free" /\ ~ReadFailed(r)
                 /\ responses'[r].bytePos = responses[r].bytePos) =>
                 responses'[r].consecutiveFailures = responses[r].consecutiveFailures
          /\ responses'[r].aborted <=>
                 (/\ responses'[r].pc = "done"
                  /\ responses'[r].consecutiveFailures = MAX_CONSECUTIVE_FAILURES)
          /\ (/\ responses'[r].pc = "done"
              /\ responses'[r].status = 206
              /\ responses'[r].method = "GET"
              /\ responses'[r].bytePos < responses'[r].targetEnd
              /\ ~responses'[r].destroyed) => responses'[r].aborted
          /\ responses'[r].consecutiveFailures \in 0..MAX_CONSECUTIVE_FAILURES
          /\ responses[r].aborted => responses'[r] = responses[r]]_vars

\* a response that wrote a chunk and then gave up after MAX_CONSECUTIVE_FAILURES
\* reads of the next chunk, each a fetch of MAX_RETRIES failed attempts
C17_Witness ==
    \E r \in 1..MaxResponses :
        /\ responses[r].aborted
        /\ responses[r].consecutiveFailures = MAX_CONSECUTIVE_FAILURES
        /\ Len(responses[r].body) > 0
        /\ responses[r].bytePos < responses[r].targetEnd

\* the task of response r has finished or is suspended on something that comes:
\* a fetch (which settles when its attempts return), a timer, or a drain event
\* that can still be emitted
TaskProceeds(r) ==
    \/ responses[r].pc \in {"free", "done"}
    \/ responses[r].pc \in {"burst", "awaitInflight", "awaitDownload", "sleepFail"}
    \/ responses[r].pc = "drain" /\ ENABLED Drained(r, NoBackPressure)

\* C18: a client disconnect during body emission terminates the response task:
\* in every state of the loop, the wait for the drain event included, the task of
\* a disconnected response has finished or proceeds to its next test of
\* res.destroyed; and the disconnect leaves the cache as it is.
C18_DisconnectEndsTask ==
    [][\A r \in 1..MaxResponses :
          /\ responses'[r].destroyed => TaskProceeds(r)'
          /\ (~responses[r].destroyed /\ responses'[r].destroyed) =>
                 chunkCache' = chunkCache]_vars

\* C19: once destroy() has returned no prefetch worker and no fetch is still
\* running, no stream is registered, the pool is empty and the cache is empty,
\* in that state and in every later one.
C19_ShutdownQuiesces ==
    shutdown.pc = "returned" =>
        /\ \A e \in 1..Len(workers), w \in 1..PARALLEL_WORKERS : workers[e][w].pc = "done"
        /\ \A f \in DOMAIN fetches : fetches[f].done
        /\ \A v \in StreamIds : activeStreams[v] = NoStream
        /\ clientPool = <<>>
        /\ MapKeys(chunkCache.map) = {}

\* C20: whenever a call of ensureClientPool returns normally the pool holds
\* exactly CLIENT_POOL_SIZE sessions, all connected; and a call made when the pool
\* holds that many connected sessions returns at once, creating no session and
\* issuing no RPC.
C20_PoolRaised ==
    [][\A t \in 1..MaxCalls :
          /\ (ensureTask[t].pc # "done" /\ ensureTask'[t].pc = "done") =>
                 /\ Len(clientPool') = CLIENT_POOL_SIZE
                 /\ Alive(clientPool') = CLIENT_POOL_SIZE
          /\ (/\ ensureTask[t].pc = "idle"
              /\ ensureTask'[t].pc # "idle"
              /\ Alive(clientPool) >= CLIENT_POOL_SIZE) =>
                 /\ ensureTask'[t].pc = "done"
                 /\ clientPool' = clientPool
                 /\ authCount' = authCount]_vars

\* C21: a FLOOD reply to the authentication is not raised to the caller of
\* ensureClientPool: the call counts down the server-given seconds plus the
\* margin of 5, in sleeps of at most 30, and only then issues the authentication
\* again, rate-limit after rate-limit; any other failure of the authentication
\* ends the call with the error, without a retry.
C21_FloodAbsorbed ==
    [][\A t \in 1..MaxCalls :
          /\ (ensureTask[t].pc = "auth" /\ ensureTask'[t].pc = "floodWait") =>
                 /\ floodCount' = floodCount + 1
                 /\ authCount' = authCount
                 /\ ensureTask'[t].waited = 0
                 /\ ensureTask'[t].remaining = ensureTask'[t].seconds + FLOOD_MARGIN
          /\ (ensureTask[t].pc = "floodWait" /\ ensureTask'[t] # ensureTask[t]) =>
                 \/ /\ ensureTask'[t].pc = "floodWait"
                    /\ authCount' = authCount
                    /\ ensureTask'[t].waited > ensureTask[t].waited
                    /\ ensureTask'[t].waited < ensureTask[t].seconds + FLOOD_MARGIN
                    /\ ensureTask'[t].waited + ensureTask'[t].remaining =
                           ensureTask[t].seconds + FLOOD_MARGIN
                 \/ /\ ensureTask'[t].pc = "auth"
                    /\ authCount' = authCount + 1
                    /\ ensureTask[t].waited + ensureTask[t].remaining =
                           ensureTask[t].seconds + FLOOD_MARGIN
          /\ (ensureTask[t].pc = "auth" /\ ensureTask'[t].pc = "failed") =>
                 /\ floodCount' = floodCount
                 /\ faults' = faults + 1
                 /\ authCount' = authCount
          /\ ensureTask[t].pc = "failed" => ensureTask'[t] = ensureTask[t]]_vars

\* after two rate-limits in a row, each waited out, a call authenticates for the
\* third time
C21_Witness ==
    \E t \in 1..MaxCalls :
        /\ ensureTask[t].pc = "auth"
        /\ floodCount = 2
        /\ authCount = 3
        /\ \A u \in 1..MaxCalls : u # t => ensureTask[u].pc = "idle"

\* the head and the tail of a file: the first PREFETCH_CHUNKS indices and the
\* last TAIL_CHUNKS
HeadAndTail(fileSize) ==
    {i \in 0..(TotalChunks(fileSize) - 1) :
        i < PREFETCH_CHUNKS \/ i >= TotalChunks(fileSize) - TAIL_CHUNKS}

\* the indices of a warm-up that its workers are fetching
BeingFetched(job) == {job.subs[i].idx : i \in {j \in 1..Len(job.subs) : job.subs[j].pc = "fetch"}}

\* every index of the head and the tail is, once, waiting in the queue, being
\* fetched by one worker of the warm-up, or has its result
EachIndexOnce(st) ==
    /\ Elems(st.job.asked) = HeadAndTail(st.fileSize)
    /\ Len(st.job.asked) = Cardinality(HeadAndTail(st.fileSize))
    /\ Elems(st.job.queue) \cup BeingFetched(st.job) \cup DOMAIN st.job.results
           = HeadAndTail(st.fileSize)
    /\ Len(st.job.queue) + Cardinality({j \in 1..Len(st.job.subs) : st.job.subs[j].pc = "fetch"})
           + Cardinality(DOMAIN st.job.results) = Cardinality(HeadAndTail(st.fileSize))

\* C22: startTelegramStream registers the stream and starts the prefetch workers,
\* from cursor PREFETCH_CHUNKS, in the step in which its warm-up has completed, so
\* a request for a stream none of whose starts has completed gets 404; the
\* warm-up takes each index of the head and of the tail once; when no download
\* has failed, the budget holds head and tail and nothing else has run on the
\* cache, all of them are cached when the start returns.
C22_WarmupThenRegister ==
    [][/\ \A s \in 1..MaxStarts :
              /\ starts'[s].pc = "warmup" => EachIndexOnce(starts'[s])
              /\ (starts[s].pc = "warmup" /\ starts'[s].pc = "done") =>
                     /\ JobDone(starts[s].job)
                     /\ DOMAIN starts[s].job.results = HeadAndTail(starts[s].fileSize)
                     /\ activeStreams[starts[s].videoId] # activeStreams'[starts[s].videoId]
                     /\ Len(engines') = Len(engines) + 1
                     /\ activeStreams'[starts[s].videoId].downloader = Len(engines')
                     /\ engines'[Len(engines')].running
                     /\ engines'[Len(engines')].cursor >= PREFETCH_CHUNKS
                     /\ \A i \in engines'[Len(engines')].reserved :
                            /\ i >= PREFETCH_CHUNKS
                            /\ i < engines'[Len(engines')].cursor
                     /\ (/\ Len(engines) = 0
                         /\ downloadFaults = 0
                         /\ Cardinality(HeadAndTail(starts[s].fileSize)) * CHUNK_SIZE
                                <= chunkCache.maxBytes) =>
                            \A i \in HeadAndTail(starts[s].fileSize) :
                                CacheGetResult(chunkCache', CacheKey(starts[s].videoId, i))
                                    = RemoteChunk(starts[s].videoId, i, starts[s].fileSize)
       /\ \A v \in StreamIds :
              (activeStreams'[v] # NoStream /\ activeStreams'[v] # activeStreams[v]) =>
                  \E s \in 1..MaxStarts :
                      /\ starts[s].pc = "warmup" /\ starts'[s].pc = "done"
                      /\ starts[s].videoId = v
       /\ Len(engines') # Len(engines) =>
              \E s \in 1..MaxStarts : starts[s].pc = "warmup" /\ starts'[s].pc = "done"
       /\ \A r \in 1..MaxResponses :
              (/\ responses[r].pc = "free" /\ responses'[r].pc # "free"
               /\ \A s \in 1..MaxStarts :
                      starts[s].pc = "done" => starts[s].videoId # responses'[r].videoId) =>
                  responses'[r].status = 404 /\ responses'[r].pc = "done"]_vars

\* a start has returned with the head and the tail of a three-chunk file cached,
\* its workers launched from PREFETCH_CHUNKS on, after a request that came during
\* the warm-up got 404
C22_Witness ==
    \E s \in 1..MaxStarts, r \in 1..MaxResponses :
        /\ starts[s].pc = "done"
        /\ TotalChunks(starts[s].fileSize) > PREFETCH_CHUNKS + TAIL_CHUNKS
        /\ \A i \in HeadAndTail(starts[s].fileSize) :
               CacheHas(chunkCache, CacheKey(starts[s].videoId, i))
        /\ Len(engines) = 1
        /\ engines[1].reserved = {PREFETCH_CHUNKS}
        /\ responses[r].status = 404
        /\ responses[r].videoId = starts[s].videoId

---------------------------------------------------------------------------
(* Further claims about the cache (SpecCache) *)

\* C23: a set whose buffer is longer than maxBytes is rejected: the buffer is not
\* stored under the key and usedBytes stays within the budget.
C23_OversizeRejected ==
    (lastOp.op = "set" /\ Len(lastOp.buf) > chunkCache.maxBytes) =>
        /\ CacheGetResult(chunkCache, lastOp.key) # lastOp.buf
        /\ chunkCache.usedBytes <= chunkCache.maxBytes

\* the stream id of a cache key: what precedes its last colon
StreamOfKey(key) ==
    LET last == CHOOSE i \in 1..Len(key) :
                    key[i] = ":" /\ \A j \in (i + 1)..Len(key) : key[j] # ":"
    IN  SubSeq(key, 1, last - 1)

\* the positions of the entries of stream videoId in a map
EntriesOf(map, videoId) == {i \in 1..Len(map) : StreamOfKey(map[i].key) = videoId}

\* C24: the purge of stopStream(s), deletePrefix(s + ':'), removes the entries
\* whose stream id is s and no entry of another stream id, and lowers usedBytes by
\* the total length of the removed entries.
C24_PurgeExact ==
    [][lastOp'.op = "deletePrefix" =>
          /\ chunkCache'.map =
                SelectEntries(chunkCache.map,
                    {chunkCache.map[i].key :
                        i \in (1..Len(chunkCache.map)) \ EntriesOf(chunkCache.map, lastOp'.key)})
          /\ chunkCache'.usedBytes =
                chunkCache.usedBytes - (SumBytes(chunkCache.map) - SumBytes(chunkCache'.map))]_vars

---------------------------------------------------------------------------
(* Claims about restarted streams (SpecRestart) *)

\* the engines of stream v whose running flag is set
RunningEngines(v) == {e \in 1..Len(engines) : engines[e].videoId = v /\ engines[e].running}

\* C25: at most one engine with running = true exists for a stream id, whatever
\* the sequence of startTelegramStream and stopStream calls, and once stopStream
\* of the id has returned (and until it is started again) none is running.
C25_OneEnginePerStream ==
    \A v \in StreamIds :
        /\ Cardinality(RunningEngines(v)) <= 1
        /\ (stopped[v] /\ ~Starting(v)) => RunningEngines(v) = {}

\* C26: usedBytes is the sum of the lengths of the stored buffers in every state
\* of the cache, each key is stored once, and a set of a key already present
\* reclaims the prior size first: when the new buffer fits once the prior one is
\* gone, nothing is evicted.
C26_UsedBytesIsSum ==
    /\ chunkCache.usedBytes = SumBytes(chunkCache.map)
    /\ Cardinality(MapKeys(chunkCache.map)) = Len(chunkCache.map)
    /\ (/\ lastOp.op = "set"
        /\ MapHas(lastOp.before, lastOp.key)
        /\ SumBytes(BeforeWithoutKey) + Len(lastOp.buf) <= chunkCache.maxBytes) =>
           chunkCache.map = Append(BeforeWithoutKey, [key |-> lastOp.key, buf |-> lastOp.buf])

\* an overwrite that fits only because the prior size was reclaimed first: nothing
\* was evicted and another entry is still there
C26_Witness ==
    /\ lastOp.op = "set"
    /\ MapHas(lastOp.before, lastOp.key)
    /\ SumBytes(lastOp.before) + Len(lastOp.buf) > chunkCache.maxBytes
    /\ Len(chunkCache.map) = Len(lastOp.before)
    /\ Len(chunkCache.map) >= 2

\* C27: has(key) leaves the cache as it was, the recency order included, and
\* answers whether the key is stored; a key that is the least recent entry is
\* still the first to go when the set of a new key that follows the has needs
\* room.
C27_HasLeavesOrder ==
    [][/\ lastOp'.op = "has" =>
              /\ chunkCache' = chunkCache
              /\ lastOp'.ret = IF lastOp'.key \in MapKeys(chunkCache.map) THEN <<1>> ELSE <<0>>
       /\ (/\ lastOp.op = "has"
           /\ chunkCache.map # <<>>
           /\ lastOp.key = Head(chunkCache.map).key
           /\ lastOp'.op = "set"
           /\ ~CacheHas(chunkCache, lastOp'.key)
           /\ chunkCache.usedBytes + Len(lastOp'.buf) > chunkCache.maxBytes) =>
              ~CacheHas(chunkCache', lastOp.key)]_vars

\* a has has found the least recent entry of a full cache: the entry the next
\* set that needs room evicts
C27_Witness ==
    /\ lastOp.op = "has"
    /\ lastOp.ret = <<1>>
    /\ Len(chunkCache.map) >= 2
    /\ lastOp.key = Head(chunkCache.map).key
    /\ chunkCache.usedBytes = chunkCache.maxBytes

---------------------------------------------------------------------------
(* Claims about the prefetch engine's cursor (SpecLong) *)

\* cursor and seek generation after notify_playback(c), as C28 states them
AfterNotify(pos, c, totalChunks) ==
    IF pos.cursor >= totalChunks \/ pos.cursor > c + LOOKAHEAD_CHUNKS
    THEN [cursor |-> c, seekGeneration |-> pos.seekGeneration + 1, playbackChunk |-> c]
    ELSE [cursor |-> pos.cursor, seekGeneration |-> pos.seekGeneration, playbackChunk |-> c]

\* the same after the calls for the chunks first..last in turn
RECURSIVE AfterNotifies(_, _, _, _)
AfterNotifies(pos, first, last, totalChunks) ==
    IF first > last THEN pos
    ELSE AfterNotifies(AfterNotify(pos, first, totalChunks), first + 1, last, totalChunks)

PositionOf(eng) ==
    [cursor |-> eng.cursor, seekGeneration |-> eng.seekGeneration,
     playbackChunk |-> eng.playbackChunk]

\* the first and the last chunk the body loop calls notifyPlayback for in a step:
\* it calls it at the top of every iteration, so not again for the chunk whose
\* download it was waiting for
FirstNotified(q) ==
    IF q.pc \in {"awaitInflight", "awaitDownload"}
    THEN (q.bytePos \div CHUNK_SIZE) + 1
    ELSE q.bytePos \div CHUNK_SIZE

LastNotified(q, q2) ==
    IF q2.pc \in {"awaitInflight", "awaitDownload"}
    THEN q2.bytePos \div CHUNK_SIZE
    ELSE IF q.pc = "drain" /\ q2.bytePos = q.bytePos
    THEN (q.bytePos \div CHUNK_SIZE) - 1
    ELSE (q2.bytePos - 1) \div CHUNK_SIZE

\* C28: notifyPlayback(c) sets playbackChunk = c; it sets the cursor to c and
\* increments the seek generation exactly when the cursor was at or past
\* totalChunks or more than LOOKAHEAD_CHUNKS ahead of c, and leaves both alone
\* otherwise.  Stated of every step of the body loop (the calls it makes, one per
\* iteration, in turn): a worker's step leaves playbackChunk and the generation.
C28_NotifyPlayback ==
    [][/\ \A r \in 1..MaxResponses :
              (/\ responses[r].pc \in {"burst", "drain", "awaitInflight", "awaitDownload"}
               /\ responses'[r] # responses[r]) =>
                  PositionOf(engines'[responses[r].engine]) =
                      AfterNotifies(PositionOf(engines[responses[r].engine]),
                                    FirstNotified(responses[r]),
                                    LastNotified(responses[r], responses'[r]),
                                    engines[responses[r].engine].totalChunks)
       /\ responses' = responses =>
              \A e \in 1..Len(engines) :
                  /\ engines'[e].playbackChunk = engines[e].playbackChunk
                  /\ engines'[e].seekGeneration = engines[e].seekGeneration]_vars

\* playback is at chunk 0 of a file of more than LOOKAHEAD_CHUNKS + 1 chunks and
\* a notifyPlayback(0) has repositioned the cursor (the handler called no seekTo):
\* the workers, held to chunk LOOKAHEAD_CHUNKS, had taken it one past that
C28_Witness ==
    \E r \in 1..MaxResponses :
        /\ responses[r].pc = "drain"
        /\ ~responses[r].seeked
        /\ engines[responses[r].engine].totalChunks > LOOKAHEAD_CHUNKS + 1
        /\ engines[responses[r].engine].seekGeneration = 1
        /\ engines[responses[r].engine].playbackChunk = 0

\* worker w of engine e calls _getNextChunk in the step it takes from this state:
\* it wakes from a sleep, or resumes from a download during which a seek happened
CallsNextChunk(e, w) ==
    /\ engines[e].running
    /\ \/ workers[e][w].pc \in {"sleepIdle", "sleepCool"}
       \/ /\ workers[e][w].pc = "fetch"
          /\ workers[e][w].gen # engines[e].seekGeneration

\* the keys in flight at the moment of that call: the worker's own finished fetch
\* has been taken off the registry by downloadChunk's finally
InFlightAtCall(e, w) ==
    IF workers[e][w].pc = "fetch" /\ workers[e][w].call.kind = "owner"
    THEN DOMAIN inFlight \ {workers[e][w].call.key}
    ELSE DOMAIN inFlight

\* chunk i of engine e's stream is cached or in flight at the moment of the call
Busy(e, w, i) ==
    \/ CacheHas(chunkCache, CacheKey(engines[e].videoId, i))
    \/ CacheKey(engines[e].videoId, i) \in InFlightAtCall(e, w)

\* C29: an index idx returned by _getNextChunk was neither cached nor in flight at
\* the moment of the call and at most playbackChunk + LOOKAHEAD_CHUNKS, and the
\* call left the cursor at idx + 1 having scanned at most LOOKAHEAD_CHUNKS
\* indices, all busy but idx; when it returns null every index it scanned was
\* cached or in flight.  A worker step that makes no call leaves the cursor.
C29_NextChunk ==
    [][\A e \in 1..Len(workers), w \in 1..PARALLEL_WORKERS :
           workers'[e][w] # workers[e][w] =>
               IF CallsNextChunk(e, w)
               THEN /\ engines'[e].cursor - engines[e].cursor \in 0..LOOKAHEAD_CHUNKS
                    /\ workers'[e][w].pc \in {"fetch", "sleepIdle"}
                    /\ workers'[e][w].pc = "fetch" =>
                          /\ engines'[e].cursor = workers'[e][w].idx + 1
                          /\ workers'[e][w].idx >= engines[e].cursor
                          /\ workers'[e][w].idx <= engines[e].playbackChunk + LOOKAHEAD_CHUNKS
                          /\ ~Busy(e, w, workers'[e][w].idx)
                          /\ \A i \in engines[e].cursor..(workers'[e][w].idx - 1) :
                                 Busy(e, w, i)
                    /\ workers'[e][w].pc = "sleepIdle" =>
                          \A i \in engines[e].cursor..(engines'[e].cursor - 1) : Busy(e, w, i)
               ELSE engines'[e].cursor = engines[e].cursor]_vars

\* a worker holds the index at the edge of the look-ahead window, the cursor is
\* one past it, and the other worker's call found nothing to take and sleeps
C29_Witness ==
    \E e \in 1..Len(workers), w, x \in 1..PARALLEL_WORKERS :
        /\ workers[e][w].pc = "fetch"
        /\ workers[e][w].idx = engines[e].playbackChunk + LOOKAHEAD_CHUNKS
        /\ engines[e].cursor = workers[e][w].idx + 1
        /\ engines[e].cursor < engines[e].totalChunks
        /\ workers[e][x].pc = "sleepIdle"

---------------------------------------------------------------------------
(* Claims about downloadChunk called on its own (SpecDirect) *)

\* the call of slot s is for a chunk that starts at or past the end of the file
PastEnd(st) == st.job.asked[1] * CHUNK_SIZE >= st.fileSize

\* the cache keys of the chunks past the end that the calls ask for
PastEndKeys ==
    {CacheKey(v, i) : v \in StreamIds,
                      i \in {j \in DirectIndices : j * CHUNK_SIZE >= MaxFileSize}}

\* C30: downloadChunk for an index with index * CHUNK_SIZE >= fileSize returns a
\* zero-length buffer (not null) with no download attempt made on any client,
\* inserts nothing into the cache, and its registry entry is gone once the call
\* that registered it has returned.
C30_PastEndFetch ==
    [][/\ \A s \in 1..StartSlots :
              /\ (starts[s].pc = "idle" /\ starts'[s].pc = "direct" /\ PastEnd(starts'[s])) =>
                     /\ chunkCache' = chunkCache
                     /\ starts'[s].job.subs[1].call.kind \in {"owner", "piggy"}
                     /\ fetches'[starts'[s].job.subs[1].call.fetch].done
                     /\ fetches'[starts'[s].job.subs[1].call.fetch].attempt = 0
                     /\ fetches'[starts'[s].job.subs[1].call.fetch].client = 0
              /\ (starts[s].pc = "direct" /\ starts'[s].pc = "returned" /\ PastEnd(starts[s])) =>
                     /\ starts'[s].job.results[starts[s].job.asked[1]] = <<>>
                     /\ chunkCache' = chunkCache
                     /\ starts[s].job.subs[1].call.kind = "owner" =>
                            starts[s].job.subs[1].call.key \notin DOMAIN inFlight'
       /\ \A k \in PastEndKeys :
              /\ ~CacheHas(chunkCache', k)
              /\ k \in DOMAIN inFlight' =>
                     /\ fetches'[inFlight'[k]].done
                     /\ fetches'[inFlight'[k]].attempt = 0
                     /\ \E s \in 1..StartSlots :
                            /\ starts'[s].pc = "direct"
                            /\ starts'[s].job.subs[1].call
                                   = [kind |-> "owner", fetch |-> inFlight'[k],
                                      key |-> k, buf |-> <<>>]]_vars

\* two calls for the first chunk past the end have returned their zero-length
\* buffers and the registry is empty
C30_Witness ==
    /\ \A s \in 1..StartSlots :
           /\ starts[s].pc = "returned"
           /\ starts[s].job.asked = <<TotalChunks(MaxFileSize)>>
           /\ starts[s].job.results[TotalChunks(MaxFileSize)] = <<>>
    /\ inFlight = <<>>

---------------------------------------------------------------------------
(* Claims about back-pressure and HEAD (SpecStream) *)

\* C31: once a res.write has returned false the body loop is suspended on the
\* drain event: it has issued no fetch, the write was the last thing the step
\* did (the engine's playbackChunk is that of the chunk written, or as before),
\* and nothing is written before the event arrives (on a destroyed socket, never).
C31_BackPressure ==
    [][\A r \in 1..MaxResponses :
           /\ responses'[r].pressured =>
                  /\ responses'[r].pc = "drain"
                  /\ responses'[r].call = NoCall
                  /\ responses'[r].job = NoJob
           /\ (responses'[r].pressured /\ responses'[r].body # responses[r].body) =>
                  engines'[responses'[r].engine].playbackChunk \in
                      {(responses'[r].bytePos - 1) \div CHUNK_SIZE,
                       engines[responses'[r].engine].playbackChunk}
           /\ (responses[r].pressured /\ responses[r].destroyed) =>
                  responses'[r] = responses[r]
           /\ (responses[r].pressured /\ responses'[r].pressured) =>
                  \/ responses'[r].body = responses[r].body
                  \/ ~responses[r].destroyed]_vars

\* a write in the middle of the range has returned false after an earlier chunk
\* went out: the handler waits with bytes still to send
C31_Witness ==
    \E r \in 1..MaxResponses :
        /\ responses[r].pressured
        /\ responses[r].bytePos < responses[r].targetEnd
        /\ Len(responses[r].body) > CHUNK_SIZE
        /\ engines[responses[r].engine].playbackChunk
               = (responses[r].bytePos - 1) \div CHUNK_SIZE

---------------------------------------------------------------------------
(* Claims about the workers' progress (SpecProgress) *)

\* nothing is left to happen without a further request: no start, response or
\* fetch is under way, and every worker of engine e sleeps and would find no
\* index to take, nor move the cursor, when it wakes
WorkersAtRest(e) ==
    /\ \A s \in 1..Len(starts) : starts[s].pc # "warmup"
    /\ \A r \in 1..Len(responses) : responses[r].pc \in {"free", "done"}
    /\ DOMAIN inFlight = {}
    /\ \A w \in 1..PARALLEL_WORKERS : workers[e][w].pc = "sleepIdle"
    /\ GetNextChunk(World, e, 0).idx = -1
    /\ GetNextChunk(World, e, 0).W.engines[e].cursor = engines[e].cursor

\* the window of engine e: playbackChunk .. min(totalChunks - 1, playbackChunk + LOOKAHEAD_CHUNKS)
Window(e) ==
    engines[e].playbackChunk ..
        Min(engines[e].totalChunks - 1, engines[e].playbackChunk + LOOKAHEAD_CHUNKS)

\* C32: with every download succeeding and a budget that holds the whole file,
\* the workers of a running engine cache every index of the window around the
\* playback chunk without a further request: when they have come to rest, no
\* index of the window is missing from the cache.
C32_WindowFilled ==
    \A e \in 1..Len(workers) :
        (engines[e].running /\ chunkCache.maxBytes >= engines[e].fileSize /\ WorkersAtRest(e)) =>
            \A i \in Window(e) : CacheHas(chunkCache, CacheKey(engines[e].videoId, i))

---------------------------------------------------------------------------
(* Claims about reconnecting and the size of the pool *)

\* the pending fetches whose attempt is awaiting c.connect() on pool slot i
Reconnecting(i) ==
    {f \in DOMAIN fetches :
        ~fetches[f].done /\ fetches[f].reconnecting /\ fetches[f].client = i}

\* C33: at most one reconnect of a session is in progress at any time, however
\* many fetches are routed to that session while it is disconnected.
C33_OneReconnect ==
    \A i \in 1..Len(clientPool) : Cardinality(Reconnecting(i)) <= 1

---------------------------------------------------------------------------
(* Claims about HEAD (SpecStream) *)

\* the step is the arrival of a HEAD request, on response r, for a stream that
\* is registered
HeadArrives(r) ==
    /\ responses[r].pc = "free"
    /\ responses'[r].pc # "free"
    /\ responses'[r].method = "HEAD"
    /\ activeStreams[responses'[r].videoId] # NoStream

\* C34: a HEAD on a registered stream is answered 200 with Content-Length equal
\* to the file size of the registration and an empty body, in one step that
\* leaves the cache, the in-flight registry, the fetches and every engine
\* (cursor, playbackChunk, seekGeneration) as they were.
C34_HeadIsInert ==
    [][\A r \in 1..Len(responses) :
          HeadArrives(r) =>
            /\ responses'[r].pc = "done"
            /\ responses'[r].status = 200
            /\ responses'[r].contentLength =
                   activeStreams[responses'[r].videoId].fileSize
            /\ responses'[r].body = <<>>
            /\ responses'[r].call = NoCall /\ responses'[r].job = NoJob
            /\ ~responses'[r].seeked
            /\ chunkCache' = chunkCache
            /\ inFlight' = inFlight
            /\ fetches' = fetches
            /\ engines' = engines]_vars

\* a HEAD has been answered for a registered stream whose engine had left its
\* start position and whose cache held chunks
C34_Witness ==
    \E r \in 1..Len(responses) :
        /\ responses[r].method = "HEAD"
        /\ responses[r].pc = "done"
        /\ responses[r].registered
        /\ responses[r].engine = 0
        /\ activeStreams[responses[r].videoId] # NoStream
        /\ LET e == activeStreams[responses[r].videoId].downloader IN
           /\ e # 0
           /\ engines[e].cursor > 0
        /\ chunkCache.map # <<>>

---------------------------------------------------------------------------
(* Claims about the cache at the end of a playback (SpecLong) *)

\* the number of whole chunks the cache budget of the stream specifications holds
BudgetChunks == StreamBudget \div CHUNK_SIZE

\* the step completes, on response r, a GET of the whole file of a registered
\* stream whose engine is running: status 200 and every byte of the file written
WholeFileServed(r) ==
    /\ responses[r].pc # "done"
    /\ responses'[r].pc = "done"
    /\ responses'[r].method = "GET"
    /\ responses'[r].header = <<>>
    /\ responses'[r].status = 200
    /\ Len(responses'[r].body) = responses'[r].fileSize
    /\ responses'[r].engine # 0
    /\ engines'[responses'[r].engine].running
    /\ TotalChunks(responses'[r].fileSize) > BudgetChunks

\* the keys of the last n chunks of the file of response r
LastServedKeys(r, n) ==
    LET total == TotalChunks(responses'[r].fileSize) IN
    {CacheKey(responses'[r].videoId, i) : i \in (total - n)..(total - 1)}

\* C35: with a budget of B chunks and a file of more than B chunks, when a GET of
\* the whole file completes on a started stream the cache holds exactly the B
\* chunks served last.
C35_LastServedCached ==
    [][\A r \in 1..Len(responses) :
          WholeFileServed(r) =>
              MapKeys(chunkCache'.map) = LastServedKeys(r, BudgetChunks)]_vars

---------------------------------------------------------------------------
(* Claims about the workers of a stopped engine (SpecStream) *)

\* worker w of engine e takes the step
WorkerSteps(e, w) == workers'[e][w] # workers[e][w]

\* the step of worker w of engine e reserves nothing and starts no fetch
NothingNew(e) ==
    /\ engines'[e] = engines[e]
    /\ DOMAIN inFlight' \subseteq DOMAIN inFlight
    /\ DOMAIN fetches' \subseteq DOMAIN fetches

\* C36 as stated: after stop() no worker of the engine reserves or fetches, and
\* every worker exits at the end of its current fetch or sleep, whatever seekTo
\* and notifyPlayback calls come in between.
C36_ExitAtNextResumption ==
    [][\A e \in 1..Len(engines), w \in 1..PARALLEL_WORKERS :
          (~engines[e].running /\ WorkerSteps(e, w)) =>
              /\ NothingNew(e)
              /\ workers'[e][w].pc = "done"]_vars

\* C36 as amended: after stop() no worker of the engine reserves or fetches; a
\* worker exits at the end of its current sleep, and at the end of its current
\* fetch when the seek generation has changed since it reserved; a worker whose
\* fetch returns under the generation it reserved under takes the cool-down sleep
\* and exits at the end of that; calls of notifyPlayback on the stopped engine
\* do not restart it.
C36_ExitAfterCoolDown ==
    [][\A e \in 1..Len(engines) :
          ~engines[e].running =>
              /\ ~engines'[e].running
              /\ \A w \in 1..PARALLEL_WORKERS :
                    WorkerSteps(e, w) =>
                        /\ NothingNew(e)
                        /\ workers[e][w].pc # "done"
                        /\ IF /\ workers[e][w].pc = "fetch"
                              /\ workers[e][w].gen = engines[e].seekGeneration
                           THEN workers'[e][w].pc = "sleepCool"
                           ELSE workers'[e][w].pc = "done"]_vars

\* on a stopped engine that a response still in progress keeps notifying, one
\* worker has exited and another, whose fetch returned, is in its cool-down sleep
C36_Witness ==
    \E e \in 1..Len(engines), r \in 1..Len(responses) :
        /\ ~engines[e].running
        /\ responses[r].engine = e
        /\ responses[r].pc \notin {"free", "done"}
        /\ engines[e].playbackChunk > 0
        /\ \E w1, w2 \in 1..PARALLEL_WORKERS :
               /\ workers[e][w1].pc = "done"
               /\ workers[e][w2].pc = "sleepCool"

---------------------------------------------------------------------------
(* Claims about the seek generation (SpecServe) *)

\* worker w of engine e is suspended in the same fetch before and after the step
StillFetching(e, w) ==
    /\ workers[e][w].pc = "fetch"
    /\ workers'[e][w] = workers[e][w]

\* C37: the seek generation of an engine never decreases; a step that lowers the
\* cursor raises the generation in the same step; so every worker suspended in a
\* fetch across such a step holds a snapshot that differs from (is below) the
\* generation it will read when the fetch returns.
C37_GenerationMarksMoves ==
    [][\A e \in 1..Len(engines) :
          /\ engines'[e].seekGeneration >= engines[e].seekGeneration
          /\ \A w \in 1..PARALLEL_WORKERS :
                 workers[e][w].pc = "fetch" =>
                     workers[e][w].gen <= engines[e].seekGeneration
          /\ engines'[e].cursor < engines[e].cursor =>
                 /\ engines'[e].seekGeneration > engines[e].seekGeneration
                 /\ \A w \in 1..PARALLEL_WORKERS :
                        StillFetching(e, w) =>
                            workers'[e][w].gen # engines'[e].seekGeneration]_vars

\* a seekTo has set the cursor back to or below an index a worker is still
\* fetching, and that worker's snapshot is older than the engine's generation
C37_Witness ==
    \E e \in 1..Len(engines), w \in 1..PARALLEL_WORKERS, r \in 1..Len(responses) :
        /\ responses[r].engine = e
        /\ responses[r].seeked
        /\ workers[e][w].pc = "fetch"
        /\ workers[e][w].gen < engines[e].seekGeneration
        /\ engines[e].cursor <= workers[e][w].idx

---------------------------------------------------------------------------
(* Claims about the look-ahead window (SpecProgress) *)

\* C38: an engine started at most LOOKAHEAD_CHUNKS + 1 chunks into the file keeps
\* its cursor at most LOOKAHEAD_CHUNKS + 1 ahead of the playback chunk, in every
\* state, whatever the interleaving of its workers' reservations with the
\* notifyPlayback and seekTo calls of concurrent responses.
C38_CursorWithinWindow ==
    \A e \in 1..Len(engines) :
        engines[e].cursor <= engines[e].playbackChunk + LOOKAHEAD_CHUNKS + 1

\* two responses have acted on the engine, one of them a seek, playback has been
\* set back below the seek target and the workers have taken the cursor to the
\* edge of the window
C38_Witness ==
    \E e \in 1..Len(engines), r1, r2 \in 1..Len(responses) :
        /\ r1 # r2
        /\ responses[r1].engine = e /\ responses[r2].engine = e
        /\ responses[r1].seeked
        /\ engines[e].playbackChunk < responses[r1].rangeStart \div CHUNK_SIZE
        /\ engines[e].playbackChunk > 0
        /\ engines[e].cursor = engines[e].playbackChunk + LOOKAHEAD_CHUNKS + 1

---------------------------------------------------------------------------
(* Claims about the size of the pool (SpecPool) *)

\* C39: the pool never holds more than CLIENT_POOL_SIZE clients, in every state
\* and for every interleaving of overlapping ensureClientPool calls.
C39_PoolBounded == Len(clientPool) <= CLIENT_POOL_SIZE

---------------------------------------------------------------------------
(* Claims about the range of a 206 reply (SpecServe) *)

\* C40: every GET with a Range header that parses, bytes=S- or bytes=S-E for any
\* S and E, on a registered stream is answered 206 with 0 <= start <= end <
\* fileSize, and so with a Content-Length of end - start + 1 >= 1.
C40_RangeWithinFile ==
    \A r \in 1..Len(responses) :
        (responses[r].status = 206 /\ RangeMatch(responses[r].header).ok) =>
            /\ 0 <= responses[r].rangeStart
            /\ responses[r].rangeStart <= responses[r].rangeEnd
            /\ responses[r].rangeEnd < responses[r].fileSize
            /\ responses[r].contentLength =
                   responses[r].rangeEnd - responses[r].rangeStart + 1
            /\ responses[r].contentLength >= 1

=============================================================================
